---- MODULE Spec2Model ----
(***************************************************************************)
(* State-machine model of the vtvtimes dashboard sync pipeline:            *)
(*   - the realtime (GA4) cycle of app.py / auto_sync.py, which replaces   *)
(*     user_by_location, user_by_source and views_by_page in one           *)
(*     transaction;                                                        *)
(*   - the realtime_active_users register script fetch_realtime_users.py    *)
(*     and the dashboard read endpoints of app.py;                         *)
(*   - the Facebook upsert writers and the page-token manager.             *)
(* Floating point coordinates are scaled by 10000; display names are       *)
(* written without diacritics; a decimal string is a sequence of digits.   *)
(***************************************************************************)
EXTENDS Integers, Sequences, FiniteSets, Bags, TLC

VARIABLES
    provider,   \* what the GA4 realtime API currently answers, per report
    db,         \* committed contents of the replace tables
    tx,         \* the writer's uncommitted view of the tables it truncated
    tx_open,    \* whether save_to_database holds an open transaction
    pc,         \* position of the realtime cycle
    ga4_data,   \* responses fetched so far in this cycle (key -> rows)
    todo,       \* cities of all_cities not yet visited by the insert loop
    idx,        \* index of the next row of the device / page insert loops
    outcome,    \* what the last cycle reported to its caller
    pre,        \* committed tables when the current / last cycle started
    realtime_active_users,  \* committed contents of the register table
    pre_register,  \* the register when the current / last cycle started
    \* fetch_realtime_users.py
    provider_totals,  \* what the API answers for the two scalar reports
    reg_pc,     \* position of the register script
    reg_resp,   \* scalar responses fetched so far (key -> rows)
    reg_tx,     \* the script's uncommitted view of the register
    reg_tx_open,  \* whether save_to_db holds an open transaction
    reg_outcome,  \* how the last run of the script ended
    reg_runs,   \* runs of the script so far; the clock of recorded_at
    \* one dashboard request at a time
    rd_pc,      \* position of the read endpoint
    rd_endpoint,  \* which endpoint is being served
    users_5min, \* get_active_users: result of its first query
    rd_response,  \* the body of the last response
    rd_status,  \* none, pending, ok or exception
    rd_locks,   \* tables the request's transaction holds ACCESS SHARE on
    rd_candidates,  \* committed contents of the table read, from the start of
                    \* the request on
    \* fetch_facebook_data_with_refresh.py: fetch_facebook_insights
    daily,      \* committed rows of facebook_page_insights_daily
    daily_tx,   \* the rows as the open transaction of the script sees them
    soc_pc,     \* position of the script
    access_token,  \* ACCESS_TOKEN
    insights_data, \* the metric blocks of the response being saved
    blk,        \* index of the metric block of the outer loop
    ent,        \* index of the entry of the inner loop
    soc_requests,  \* insights requests sent in this cycle
    soc_events,    \* what the cycle did so far, in order
    soc_outcome,   \* what the last run returned
    last_upsert,   \* (metric, date) -> value of the latest committed upsert
    tx_last,    \* the same, with the upserts of the open transaction
    \* save_facebook_data.py: save_post_insights
    posts,      \* committed rows of facebook_post_insights
    posts_tx,   \* the rows as the open transaction sees them
    post_pc,    \* position of save_post_insights
    posts_data, \* its argument
    post_idx,   \* index of the post of the loop
    post_outcome,  \* how the last call ended
    \* get_valid_page_token and FacebookTokenManager.refresh_tokens
    env,        \* the two credentials of the .env file
    tk_pc,      \* position of get_valid_page_token / refresh_tokens
    current_token, \* the page token read at the start of the call
    token_info, \* result of the latest verify_token of the call
    first_info, \* what verify_token(current_token) reported, if called
    user_token, \* manager.user_token
    user_info,  \* refresh_tokens: result of verify_token(self.user_token)
    new_token,  \* the page token read back after a refresh
    gate_result,   \* what get_valid_page_token returned
    refresh_ran,   \* refresh_tokens was called in this call
    env_writes, \* keys passed to set_key in this call
    env_at_call,  \* the .env file when the call started
    gate_verified, \* tokens the call's own verify_token calls reported valid
    chain_failures, \* the steps of the refresh chain that failed in this call
    refresh_result, \* what refresh_tokens() returned: "none" before it returns
    accounts_reply, \* the answer of GET /me/accounts in this call
    \* the service loop of auto_sync.py
    sched_pc,      \* where main() is
    clock,         \* time, in sleeps of the loop (30 s each)
    next_run,      \* when the schedule holds sync_job due next
    exit_reason,   \* why the process left main(), "none" while it runs
    invoked_at,    \* the times at which sync_job was called
    sync_log,      \* what sync_job logged at its end, call by call
    \* fetch_and_save_all_facebook_data
    cyc_pc,        \* where the cycle is
    cyc_outcome,   \* how the last cycle ended
    cyc_events,    \* what the cycle did so far, in order
    cyc_token,     \* self.access_token of the FacebookAPI object
    cyc_stats,     \* stats: "none" before the fetch, "empty" or "data"
    cyc_insights,  \* insights_formatted, likewise
    cyc_posts,     \* number of posts fetched
    cyc_idx,       \* posts whose details were fetched
    cyc_no,        \* number of the cycle
    fb_store,      \* for each facebook_* table, the cycle that committed to it last
    \* refresh_data of app.py, in the web application
    web_pc,        \* where the handler of GET /api/refresh is
    web_data,      \* its ga4_data
    web_tx,        \* the tables as its open transaction sees them
    web_outcome,   \* how its try block ended
    \* get_facebook_insights of app.py
    rd_fetched,    \* the values its queries returned so far
    \* format_posts_for_database
    raw_posts,     \* the posts last handed to the normalizer
    \* the run_realtime_report calls of the two realtime programs
    never_answers, \* the reports the provider leaves without any answer
    call_pc,       \* idle, calling or ended
    call_prog,     \* the program that is fetching
    call_idx,      \* which of its report calls is in flight
    call_waited,   \* seconds the call in flight has waited so far
    call_outcome,  \* how the last fetch ended
    \* start of a sync process
    cfg_keys,      \* the configuration keys present in the environment
    st_proc,       \* the process that was started
    st_pc,         \* where it is
    st_done,       \* the provider fetches and store writes it made
    \* save_page_insights, save_page_stats, calculate_and_save_summary_metrics
    \* and calculate_fan_growth of save_facebook_data.py
    page_insights,   \* committed rows of facebook_page_insights
    page_stats,      \* committed rows of facebook_page_stats
    metrics_summary, \* committed rows of facebook_metrics_summary
    pg_pc,           \* which of the three writers is inside its transaction
    pg_tx,           \* the rows of its table as its transaction sees them
    pg_raw,          \* the insights response last formatted
    pg_data,         \* insights_data of save_page_insights
    pg_idx,          \* index of the next element of its loop
    pg_outcome,      \* how the last writer ended
    pg_runs,         \* writers called so far
    fan_growth,      \* what calculate_fan_growth returned last
    \* get_posts_with_insights_last_7_days of facebook_api.py
    pf_pc,           \* idle, fetching the posts' details, or done with them
    pf_posts,        \* the ids of the posts the provider listed
    pf_failed        \* the places of the list whose insights request failed

rtvars == <<provider, db, tx, tx_open, pc, ga4_data, todo, idx, outcome, pre, pre_register>>

regvars == <<provider_totals, reg_pc, reg_resp, reg_tx, reg_tx_open, reg_outcome, reg_runs>>

rdvars == <<rd_pc, rd_endpoint, users_5min, rd_response, rd_status, rd_locks>>

socvars == <<daily, daily_tx, soc_pc, access_token, insights_data, blk, ent, soc_requests,
             soc_events,
             soc_outcome, last_upsert, tx_last>>

postvars == <<posts, posts_tx, post_pc, posts_data, post_idx, post_outcome>>

tkvars == <<env, tk_pc, current_token, token_info, first_info, user_token, user_info,
            new_token, gate_result, refresh_ran, env_writes, env_at_call, gate_verified, chain_failures, refresh_result, accounts_reply>>

schedvars == <<sched_pc, clock, next_run, exit_reason, invoked_at, sync_log>>

cycvars == <<cyc_pc, cyc_outcome, cyc_events, cyc_token, cyc_stats, cyc_insights, cyc_posts,
             cyc_idx, cyc_no, fb_store>>

webvars == <<web_pc, web_data, web_tx, web_outcome>>

insvars == <<rd_fetched>>

fmtvars == <<raw_posts>>

callvars == <<never_answers, call_pc, call_prog, call_idx, call_waited, call_outcome>>

startvars == <<cfg_keys, st_proc, st_pc, st_done>>

pfvars == <<pf_pc, pf_posts, pf_failed>>

pgvars == <<page_insights, page_stats, metrics_summary, pg_pc, pg_tx, pg_raw, pg_data, pg_idx,
            pg_outcome, pg_runs, fan_growth>>

\* what a step of the realtime cycle leaves alone, the service loop apart
rt_others == <<realtime_active_users, regvars, rdvars, socvars, postvars, tkvars, cycvars, webvars, insvars, fmtvars, callvars, startvars, pgvars, pfvars>>

\* what a step of the realtime cycle leaves alone
rt_rest == <<rt_others, schedvars>>

----------------------------------------------------------------------------
(* Bounds of the model *)

\* most rows in a location report
MaxRows == 2
\* most rows in the device report and in the page report
MaxDevRows == 1
\* most runs of the register script
MaxRegRuns == 2

----------------------------------------------------------------------------
(* Reference data and pure helpers of app.py *)

VIETNAM_CITIES ==
    [c \in {"Hanoi", "Ho Chi Minh City", "Da Nang", "Hai Phong", "Can Tho",
            "Bien Hoa", "Hue", "Nha Trang", "Buon Ma Thuot", "Quy Nhon",
            "Vung Tau", "Thai Nguyen", "Nam Dinh", "Vinh"} |->
        CASE c = "Hanoi"            -> [lat |-> 210285, lng |-> 1058542, name |-> "Ha Noi"]
          [] c = "Ho Chi Minh City" -> [lat |-> 108231, lng |-> 1066297, name |-> "TP. Ho Chi Minh"]
          [] c = "Da Nang"          -> [lat |-> 160544, lng |-> 1082022, name |-> "Da Nang"]
          [] c = "Hai Phong"        -> [lat |-> 208449, lng |-> 1066881, name |-> "Hai Phong"]
          [] c = "Can Tho"          -> [lat |-> 100452, lng |-> 1057469, name |-> "Can Tho"]
          [] c = "Bien Hoa"         -> [lat |-> 109470, lng |-> 1068196, name |-> "Bien Hoa"]
          [] c = "Hue"              -> [lat |-> 164637, lng |-> 1075909, name |-> "Hue"]
          [] c = "Nha Trang"        -> [lat |-> 122388, lng |-> 1091967, name |-> "Nha Trang"]
          [] c = "Buon Ma Thuot"    -> [lat |-> 126675, lng |-> 1080378, name |-> "Buon Ma Thuot"]
          [] c = "Quy Nhon"         -> [lat |-> 137830, lng |-> 1092192, name |-> "Quy Nhon"]
          [] c = "Vung Tau"         -> [lat |-> 103460, lng |-> 1070843, name |-> "Vung Tau"]
          [] c = "Thai Nguyen"      -> [lat |-> 215670, lng |-> 1058252, name |-> "Thai Nguyen"]
          [] c = "Nam Dinh"         -> [lat |-> 204388, lng |-> 1061621, name |-> "Nam Dinh"]
          [] c = "Vinh"             -> [lat |-> 186796, lng |-> 1056813, name |-> "Vinh"]]

\* int(s) of a decimal string, given as its sequence of digits
RECURSIVE ToInt(_)
ToInt(s) ==
    IF s = <<>> THEN 0
    ELSE 10 * ToInt(SubSeq(s, 1, Len(s) - 1)) + s[Len(s)]

\* the loop `for row in rows: d[row.dimension] = int(row.metric)`: a later row
\* for the same key overwrites an earlier one
RECURSIVE BuildDict(_)
BuildDict(rows) ==
    IF rows = <<>> THEN <<>>
    ELSE LET n == Len(rows)
         IN  (rows[n].dim :> ToInt(rows[n].value)) @@ BuildDict(SubSeq(rows, 1, n - 1))

\* dict.get(key, 0)
DictGet(d, k) == IF k \in DOMAIN d THEN d[k] ELSE 0

\* sequences over S of length at most n
SeqsUpTo(S, n) == UNION {[1..k -> S] : k \in 0..n}

----------------------------------------------------------------------------
(* What the provider can answer *)

LocRowKinds ==
    { [dim |-> "Hanoi",   value |-> <<1, 2>>],
      [dim |-> "Da Nang", value |-> <<3>>],
      [dim |-> "Paris",   value |-> <<3>>] }

DevRowKinds == { [dim |-> "mobile", value |-> <<1, 2>>] }

PageRowKinds == { [dim |-> "Home", value |-> <<4, 0>>] }

ReportKeys == <<"users_5min", "users_30min", "by_device", "by_page">>

Providers ==
    [ users_5min  : SeqsUpTo(LocRowKinds, MaxRows),
      users_30min : SeqsUpTo(LocRowKinds, MaxRows),
      by_device   : SeqsUpTo(DevRowKinds, MaxDevRows),
      by_page     : SeqsUpTo(PageRowKinds, MaxDevRows) ]

----------------------------------------------------------------------------
(* The store *)

EmptyTables ==
    [ user_by_location |-> EmptyBag, user_by_source |-> EmptyBag, views_by_page |-> EmptyBag ]

\* variant: province taken from the provider's dimension value
LocationRowFromProvider(city, u5, u30) ==
    [ province |-> city, city |-> city,
      latitude |-> VIETNAM_CITIES[city].lat, longitude |-> VIETNAM_CITIES[city].lng,
      active_users_5min |-> u5, active_users_30min |-> u30 ]

LocationRow(city, u5, u30) ==
    [ province |-> VIETNAM_CITIES[city].name, city |-> city,
      latitude |-> VIETNAM_CITIES[city].lat, longitude |-> VIETNAM_CITIES[city].lng,
      active_users_5min |-> u5, active_users_30min |-> u30 ]

\* a store left by an earlier cycle, whose data differ from anything the
\* provider answers now
PriorTables ==
    [ user_by_location |-> SetToBag({LocationRow("Hue", 7, 9)}),
      user_by_source   |-> SetToBag({[source |-> "tablet", active_users |-> 7]}),
      views_by_page    |-> SetToBag({[page_title |-> "Old", screen_name |-> "Old", views |-> 9]}) ]

InitStores == {EmptyTables, PriorTables}

Insert(table, row) == table (+) SetToBag({row})

\* the tables refresh_data holds ACCESS EXCLUSIVE on: those of its TRUNCATE,
\* from the moment the statement is granted until the transaction ends
WebLocks == IF web_pc \in {"insert", "commit"} THEN DOMAIN EmptyTables ELSE {}

\* variant: the statement takes no table lock (a DELETE, not a TRUNCATE)
CanTruncateNoLock(tables) == TRUE

\* TRUNCATE takes ACCESS EXCLUSIVE on its tables: it waits while a request's
\* open transaction holds ACCESS SHARE on one of them, or another writer's
\* open transaction ACCESS EXCLUSIVE
CanTruncate(tables) == tables \cap (rd_locks \cup WebLocks) = {}

\* a SELECT on the table waits while a transaction that truncated it is open
ExclusiveLocked(t) ==
    \/ t \in {"user_by_location", "user_by_source", "views_by_page"} /\ tx_open
    \/ t \in WebLocks
    \/ t = "realtime_active_users" /\ reg_tx_open

TableOf(endpoint) ==
    CASE endpoint = "map-data"        -> "user_by_location"
      [] endpoint = "users-by-source" -> "user_by_source"
      [] endpoint = "views-by-page"   -> "views_by_page"
      [] endpoint = "active-users"    -> "realtime_active_users"
      [] endpoint = "facebook/daily_insights" -> "facebook_page_insights_daily"

\* a transaction on the three tables ended: while a request is being served,
\* remember what its table holds now
Observe(newdb) ==
    rd_candidates' =
        IF rd_pc # "idle" /\ TableOf(rd_endpoint) \in DOMAIN newdb
        THEN rd_candidates \cup {newdb[TableOf(rd_endpoint)]}
        ELSE rd_candidates

----------------------------------------------------------------------------
(* The realtime cycle: fetch_ga4_realtime_data, then save_to_database *)

\* variant: the union with the 30-minute keys is forgotten
AllCitiesFiveOnly == DOMAIN BuildDict(ga4_data["users_5min"])

\* set(users_5min_dict.keys()) | set(users_30min_dict.keys())
AllCities == DOMAIN BuildDict(ga4_data["users_5min"]) \cup DOMAIN BuildDict(ga4_data["users_30min"])

\* variant: no TRUNCATE, the inserts add to the committed rows
NotTruncated == db

\* tables as the TRUNCATE statement leaves them inside the transaction
Truncated == EmptyTables

\* variant: the except clause commits what was written so far
RolledBackAsCommit == tx

\* committed tables after conn.rollback()
RolledBack == db

\* variant: no table lock, and the statement removes the rows the cycle saw
\* when it began: what another writer committed since stays in the tables
CommittedBesideOthers == [t \in DOMAIN db |-> (db[t] (-) pre[t]) (+) tx[t]]

\* committed tables after conn.commit()
Committed == tx

\* the cycle has every report in hand: fetch_ga4_realtime_data returned
FetchReturned == DOMAIN ga4_data = {"users_5min", "users_30min", "by_device", "by_page"}

\* the locals of a cycle go out of scope
ClearLocals ==
    /\ ga4_data' = <<>>
    /\ todo' = {}
    /\ idx' = 0
    /\ tx' = EmptyTables
    /\ tx_open' = FALSE

\* fetch_ga4_realtime_data() is entered
BeginCycle ==
    /\ pc = "idle"
    /\ pc' = "fetch_5min"
    /\ pre' = db
    /\ pre_register' = realtime_active_users
    /\ outcome' = "running"
    /\ ga4_data' = <<>>
    /\ UNCHANGED <<rd_candidates, provider, db, tx, tx_open, todo, idx>>

\* sync_job() is due, or GET /api/refresh arrives
StartCycle ==
    /\ BeginCycle
    /\ UNCHANGED rt_rest

\* client.run_realtime_report(request) returns
FetchReport(at, key, next) ==
    /\ pc = at
    /\ ga4_data' = (key :> provider[key]) @@ ga4_data
    /\ pc' = next
    /\ UNCHANGED <<rd_candidates, provider, db, tx, tx_open, todo, idx, outcome, pre, pre_register>>
    /\ UNCHANGED rt_rest

Fetch5min == FetchReport("fetch_5min", "users_5min", "fetch_30min")

Fetch30min == FetchReport("fetch_30min", "users_30min", "fetch_device")

FetchDevice == FetchReport("fetch_device", "by_device", "fetch_page")

FetchPage == FetchReport("fetch_page", "by_page", "save")

\* variant: the failed call is swallowed, every missing report counts as
\* empty and the cycle goes on to save
FetchFailsSwallowed ==
    /\ pc \in {"fetch_5min", "fetch_30min", "fetch_device", "fetch_page"}
    /\ ga4_data' = [k \in {"users_5min", "users_30min", "by_device", "by_page"} |->
                        IF k \in DOMAIN ga4_data THEN ga4_data[k] ELSE <<>>]
    /\ pc' = "save"
    /\ outcome' = "fetch_error"
    /\ UNCHANGED <<rd_candidates, provider, db, tx, tx_open, todo, idx, pre, pre_register>>
    /\ UNCHANGED rt_rest

\* a report call raises: the exception leaves fetch_ga4_realtime_data and
\* reaches the caller's except clause; save_to_database is not called
FetchFails ==
    /\ pc \in {"fetch_5min", "fetch_30min", "fetch_device", "fetch_page"}
    /\ pc' = "idle"
    /\ outcome' = "fetch_error"
    /\ ClearLocals
    /\ UNCHANGED <<rd_candidates, provider, db, pre, pre_register>>
    /\ UNCHANGED rt_rest

\* get_db_connection() raises before the try block
ConnectFails ==
    /\ pc = "save"
    /\ pc' = "idle"
    /\ outcome' = "connect_error"
    /\ ClearLocals
    /\ UNCHANGED <<rd_candidates, provider, db, pre, pre_register>>
    /\ UNCHANGED rt_rest

\* cursor.execute("TRUNCATE user_by_location, user_by_source, views_by_page"),
\* the first statement of the transaction, then the two dicts and all_cities
Truncate ==
    /\ pc = "save"
    /\ FetchReturned
    /\ CanTruncate(DOMAIN EmptyTables)
    /\ tx_open' = TRUE
    /\ tx' = Truncated
    /\ todo' = AllCities
    /\ pc' = "insert_location"
    /\ UNCHANGED <<rd_candidates, provider, db, ga4_data, idx, outcome, pre, pre_register>>
    /\ UNCHANGED rt_rest

\* one iteration of `for city in all_cities`, in the set's arbitrary order
InsertLocation ==
    /\ pc = "insert_location"
    /\ \E city \in todo :
        /\ todo' = todo \ {city}
        /\ tx' = IF city \in DOMAIN VIETNAM_CITIES
                 THEN [tx EXCEPT !.user_by_location =
                          Insert(@, LocationRow(city,
                                     DictGet(BuildDict(ga4_data["users_5min"]), city),
                                     DictGet(BuildDict(ga4_data["users_30min"]), city)))]
                 ELSE tx
    /\ UNCHANGED <<rd_candidates, provider, db, tx_open, pc, ga4_data, idx, outcome, pre, pre_register>>
    /\ UNCHANGED rt_rest

EndLocationLoop ==
    /\ pc = "insert_location"
    /\ todo = {}
    /\ pc' = "insert_source"
    /\ idx' = 1
    /\ UNCHANGED <<rd_candidates, provider, db, tx, tx_open, ga4_data, todo, outcome, pre, pre_register>>
    /\ UNCHANGED rt_rest

\* one iteration of `for row in ga4_data['by_device'].rows`
InsertSource ==
    /\ pc = "insert_source"
    /\ idx <= Len(ga4_data["by_device"])
    /\ LET row == ga4_data["by_device"][idx]
       IN  tx' = [tx EXCEPT !.user_by_source =
                     Insert(@, [source |-> row.dim, active_users |-> ToInt(row.value)])]
    /\ idx' = idx + 1
    /\ UNCHANGED <<rd_candidates, provider, db, tx_open, pc, ga4_data, todo, outcome, pre, pre_register>>
    /\ UNCHANGED rt_rest

EndSourceLoop ==
    /\ pc = "insert_source"
    /\ idx > Len(ga4_data["by_device"])
    /\ pc' = "insert_page"
    /\ idx' = 1
    /\ UNCHANGED <<rd_candidates, provider, db, tx, tx_open, ga4_data, todo, outcome, pre, pre_register>>
    /\ UNCHANGED rt_rest

\* one iteration of `for row in ga4_data['by_page'].rows`
InsertPage ==
    /\ pc = "insert_page"
    /\ idx <= Len(ga4_data["by_page"])
    /\ LET row == ga4_data["by_page"][idx]
       IN  tx' = [tx EXCEPT !.views_by_page =
                     Insert(@, [page_title |-> row.dim, screen_name |-> row.dim,
                                views |-> ToInt(row.value)])]
    /\ idx' = idx + 1
    /\ UNCHANGED <<rd_candidates, provider, db, tx_open, pc, ga4_data, todo, outcome, pre, pre_register>>
    /\ UNCHANGED rt_rest

EndPageLoop ==
    /\ pc = "insert_page"
    /\ idx > Len(ga4_data["by_page"])
    /\ pc' = "commit"
    /\ UNCHANGED <<rd_candidates, provider, db, tx, tx_open, ga4_data, todo, idx, outcome, pre, pre_register>>
    /\ UNCHANGED rt_rest

\* conn.commit(), then the success message and the finally clause
Commit ==
    /\ pc = "commit"
    /\ db' = Committed
    /\ Observe(db')
    /\ pc' = "idle"
    /\ outcome' = "success"
    /\ ClearLocals
    /\ UNCHANGED <<provider, pre, pre_register>>
    /\ UNCHANGED rt_rest

\* a statement of the try block raises (the TRUNCATE, an INSERT or the
\* commit): except clause, conn.rollback(), re-raise to the caller
StatementFails ==
    /\ pc \in {"save", "insert_location", "insert_source", "insert_page", "commit"}
    /\ db' = RolledBack
    /\ Observe(db')
    /\ pc' = "idle"
    /\ outcome' = "save_error"
    /\ ClearLocals
    /\ UNCHANGED <<provider, pre, pre_register>>
    /\ UNCHANGED rt_rest

\* the process is terminated inside the transaction: the connection drops
\* and the server discards the uncommitted work
Terminate ==
    /\ tx_open
    /\ pc' = "terminated"
    /\ outcome' = "killed"
    /\ ClearLocals
    /\ UNCHANGED <<rd_candidates, provider, db, pre, pre_register>>
    /\ UNCHANGED rt_rest

\* the service or the web application is started again
Restart ==
    /\ pc = "terminated"
    /\ pc' = "idle"
    /\ UNCHANGED <<rd_candidates, provider, db, tx, tx_open, ga4_data, todo, idx, outcome, pre, pre_register>>
    /\ UNCHANGED rt_rest

\* a register row left by an earlier run of the script
PriorRegister ==
    SetToBag({[active_users_5m |-> 7, active_users_30m |-> 9, recorded_at |-> 0]})

\* the script and the dashboard at rest
RegisterAtRest ==
    /\ reg_pc = "idle"
    /\ reg_resp = <<>>
    /\ reg_tx = EmptyBag
    /\ reg_tx_open = FALSE
    /\ reg_outcome = "none"
    /\ reg_runs = 0

ReaderAtRest ==
    /\ rd_pc = "idle"
    /\ rd_endpoint = "map-data"
    /\ users_5min = 0
    /\ rd_response = <<>>
    /\ rd_status = "none"
    /\ rd_locks = {}
    /\ rd_candidates = {}

CycleAtRest ==
    /\ tx = EmptyTables
    /\ tx_open = FALSE
    /\ pc = "idle"
    /\ ga4_data = <<>>
    /\ todo = {}
    /\ idx = 0
    /\ outcome = "none"
    /\ pre = db
    /\ pre_register = realtime_active_users

\* main() of auto_sync.py was not started
ServiceAtRest ==
    /\ sched_pc = "stopped"
    /\ clock = 0
    /\ next_run = 0
    /\ exit_reason = "none"
    /\ invoked_at = <<>>
    /\ sync_log = <<>>

\* the tables written by fetch_and_save_all_facebook_data
FacebookTables ==
    {"facebook_page_stats", "facebook_page_insights", "facebook_post_insights",
     "facebook_metrics_summary"}

\* fetch_and_save_all_facebook_data was never called
PageCycleAtRest ==
    /\ cyc_pc = "idle"
    /\ cyc_outcome = "none"
    /\ cyc_events = <<>>
    /\ cyc_token = "none"
    /\ cyc_stats = "none"
    /\ cyc_insights = "none"
    /\ cyc_posts = 0
    /\ cyc_idx = 0
    /\ cyc_no = 0
    /\ fb_store = [t \in FacebookTables |-> 0]

\* no GET /api/refresh was received
WebAtRest ==
    /\ web_pc = "idle"
    /\ web_data = <<>>
    /\ web_tx = EmptyTables
    /\ web_outcome = "none"

\* no GET /api/facebook/daily_insights is being served
InsightsAtRest == rd_fetched = <<>>

\* format_posts_for_database was never called
FormatAtRest == raw_posts = <<>>

\* no realtime program is fetching, and the provider answers every report
CallsAtRest ==
    /\ never_answers = {}
    /\ call_pc = "idle"
    /\ call_prog = "none"
    /\ call_idx = 0
    /\ call_waited = 0
    /\ call_outcome = "none"

\* no sync process was started
StartAtRest ==
    /\ cfg_keys = {}
    /\ st_proc = "none"
    /\ st_pc = "stopped"
    /\ st_done = {}

\* the page tables are empty and none of their writers was called
PageTablesAtRest ==
    /\ page_insights = {}
    /\ page_stats = {}
    /\ metrics_summary = {}
    /\ pg_pc = "idle"
    /\ pg_tx = {}
    /\ pg_raw = [has_data |-> FALSE, data |-> <<>>]
    /\ pg_data = <<>>
    /\ pg_idx = 0
    /\ pg_outcome = "none"
    /\ pg_runs = 0
    /\ fan_growth = [called |-> FALSE, available |-> FALSE, growth |-> 0]

\* no post list was fetched
PostFetchAtRest ==
    /\ pf_pc = "idle"
    /\ pf_posts = <<>>
    /\ pf_failed = {}

\* no answer of GET /me/accounts was received
NoAccounts == [status_code |-> 0, pages |-> <<>>]

\* an answer of the debug_token endpoint that was never received
NoInfo == [none |-> TRUE, keys |-> {}, is_valid |-> FALSE, expires_at |-> 0]

\* the locals of the Facebook writers when none of them runs
SocialLocalsAtRest ==
    /\ daily_tx = EmptyBag
    /\ soc_pc = "idle"
    /\ access_token = "none"
    /\ insights_data = <<>>
    /\ blk = 0
    /\ ent = 0
    /\ soc_requests = 0
    /\ soc_events = <<>>
    /\ soc_outcome = "none"
    /\ tx_last = <<>>
    /\ posts_tx = EmptyBag
    /\ post_pc = "idle"
    /\ posts_data = <<>>
    /\ post_idx = 0
    /\ post_outcome = "none"

\* the Facebook writers at rest, their tables empty
SocialAtRest ==
    /\ daily = EmptyBag
    /\ posts = EmptyBag
    /\ last_upsert = <<>>
    /\ SocialLocalsAtRest

\* no call of get_valid_page_token yet
GateAtRest ==
    /\ tk_pc = "idle"
    /\ current_token = "none"
    /\ token_info = NoInfo
    /\ first_info = NoInfo
    /\ user_token = "none"
    /\ user_info = NoInfo
    /\ new_token = "none"
    /\ gate_result = "pending"
    /\ refresh_ran = FALSE
    /\ env_writes = {}
    /\ env_at_call = env
    /\ gate_verified = {}
    /\ chain_failures = {}
    /\ refresh_result = "none"
    /\ accounts_reply = NoAccounts

TokenAtRest ==
    /\ env = [page |-> "none", user |-> "none"]
    /\ GateAtRest

RealtimeInit ==
    /\ provider \in Providers
    /\ db \in InitStores
    /\ realtime_active_users = (IF db = EmptyTables THEN EmptyBag ELSE PriorRegister)
    /\ provider_totals = [active_5m |-> <<[value |-> <<5>>]>>, active_30m |-> <<[value |-> <<3, 0>>]>>]
    /\ CycleAtRest
    /\ RegisterAtRest
    /\ ReaderAtRest
    /\ ServiceAtRest
    /\ PageCycleAtRest
    /\ PostFetchAtRest
    /\ PageTablesAtRest
    /\ StartAtRest
    /\ CallsAtRest
    /\ FormatAtRest
    /\ InsightsAtRest
    /\ WebAtRest
    /\ SocialAtRest
    /\ TokenAtRest

RealtimeNext ==
    \/ StartCycle
    \/ Fetch5min
    \/ Fetch30min
    \/ FetchDevice
    \/ FetchPage
    \/ FetchFails
    \/ ConnectFails
    \/ Truncate
    \/ InsertLocation
    \/ EndLocationLoop
    \/ InsertSource
    \/ EndSourceLoop
    \/ InsertPage
    \/ EndPageLoop
    \/ Commit
    \/ StatementFails
    \/ Terminate
    \/ Restart

vars == <<rtvars, realtime_active_users, regvars, rdvars, rd_candidates, socvars, postvars, tkvars,
          schedvars, cycvars, webvars, insvars, fmtvars, callvars, startvars, pgvars, pfvars>>

SpecRealtime == RealtimeInit /\ [][RealtimeNext]_vars

----------------------------------------------------------------------------
(* Properties of the realtime cycle *)

\* C1: when a statement of save_to_database fails, or the process is
\* terminated, after the TRUNCATE and before the commit, the three tables
\* hold exactly the rows they held before the call, no transaction stays
\* open, and the caller is told of the failure.
C1_RollbackRestores ==
    outcome \in {"save_error", "killed"} => (db = pre /\ ~tx_open /\ pc \in {"idle", "terminated"})

\* a save failed inside the transaction of a store that held rows
C1_Witness ==
    /\ outcome = "save_error"
    /\ pre = PriorTables
    /\ db = PriorTables

\* C4: a store statement is issued only once all four reports have been
\* returned without error, and a cycle whose fetch failed ends with the
\* store as it was.
C4_FetchBeforeWrite ==
    /\ tx_open => (FetchReturned /\ outcome = "running")
    /\ outcome = "fetch_error" => (db = pre /\ ~tx_open)

\* a fetch failed in a cycle that started from a store holding rows
C4_Witness ==
    /\ outcome = "fetch_error"
    /\ pc = "idle"
    /\ db = PriorTables

\* the store was written by an earlier cycle of this run
FromEarlierCycle == pre \notin InitStores

\* C5: a cycle that commits after an earlier cycle committed the same
\* provider responses leaves the three tables with the same multiset of
\* rows: nothing accumulates.
C5_Idempotent ==
    (outcome = "success" /\ FromEarlierCycle) => db = pre

\* the second of two committed cycles, with rows in all three tables
C5_Witness ==
    /\ outcome = "success"
    /\ FromEarlierCycle
    /\ db = pre
    /\ \A t \in DOMAIN db : db[t] # EmptyBag

\* C6: every row of user_by_location, committed or not, has a city of the
\* reference table and that table's province, latitude and longitude.
C6_ReferenceOnly ==
    \A t \in {db, tx} : \A r \in BagToSet(t.user_by_location) :
        /\ r.city \in DOMAIN VIETNAM_CITIES
        /\ r.province = VIETNAM_CITIES[r.city].name
        /\ r.latitude = VIETNAM_CITIES[r.city].lat
        /\ r.longitude = VIETNAM_CITIES[r.city].lng

Dims(rows) == {rows[i].dim : i \in 1..Len(rows)}

\* a cycle committed although the provider returned Paris, and stored Hanoi
C6_Witness ==
    /\ outcome = "success"
    /\ "Paris" \in Dims(provider.users_5min)
    /\ \E r \in BagToSet(db.user_by_location) : r.city = "Hanoi" /\ r.province = "Ha Noi"
    /\ \A r \in BagToSet(db.user_by_location) : r.city # "Paris"

\* the counts a report gives for a city
CountsOf(rows, c) == {ToInt(rows[i].value) : i \in {j \in 1..Len(rows) : rows[j].dim = c}}

\* C7: after a committed cycle user_by_location holds, for each reference
\* city named in the 5-minute or the 30-minute report, exactly one row with
\* the city's count of each report and 0 for a report without the city, and
\* no other row.
C7_OneRowPerCity ==
    outcome = "success" =>
        LET table == db.user_by_location
            named == (Dims(provider.users_5min) \cup Dims(provider.users_30min))
                        \cap DOMAIN VIETNAM_CITIES
        IN  /\ BagCardinality(table) = Cardinality(named)
            /\ \A c \in named :
                  \E r \in BagToSet(table) :
                    /\ r.city = c
                    /\ CopiesIn(r, table) = 1
                    /\ \A q \in BagToSet(table) : q.city = c => q = r
                    /\ IF c \in Dims(provider.users_5min)
                       THEN r.active_users_5min \in CountsOf(provider.users_5min, c)
                       ELSE r.active_users_5min = 0
                    /\ IF c \in Dims(provider.users_30min)
                       THEN r.active_users_30min \in CountsOf(provider.users_30min, c)
                       ELSE r.active_users_30min = 0

\* Hanoi only in the 5-minute report, Da Nang only in the 30-minute report
C7_Witness ==
    /\ outcome = "success"
    /\ [province |-> "Ha Noi", city |-> "Hanoi", latitude |-> 210285, longitude |-> 1058542,
        active_users_5min |-> 12, active_users_30min |-> 0] \in BagToSet(db.user_by_location)
    /\ [province |-> "Da Nang", city |-> "Da Nang", latitude |-> 160544, longitude |-> 1082022,
        active_users_5min |-> 0, active_users_30min |-> 3] \in BagToSet(db.user_by_location)

----------------------------------------------------------------------------
(* The register script fetch_realtime_users.py *)

\* db.get_connection(): db.py is not among the sources; the connection is
\* taken to be psycopg2's default, which opens a transaction at the first
\* statement and ends it at commit()
get_connection == [autocommit |-> FALSE]

\* `0 if not response.rows else int(response.rows[0].metric_values[0].value)`
ScalarOf(rows) == IF rows = <<>> THEN 0 ELSE ToInt(rows[1].value)

\* a transaction on the register ended while a request is being served
ObserveRegister(content) == Observe([realtime_active_users |-> content])

\* what a statement of save_to_db sees of the register
RegView == IF get_connection.autocommit THEN realtime_active_users ELSE reg_tx

\* a statement of save_to_db leaves the register as `content`
RegApply(content) ==
    IF get_connection.autocommit
    THEN /\ realtime_active_users' = content
         /\ ObserveRegister(content)
         /\ UNCHANGED <<reg_tx, reg_tx_open>>
    ELSE /\ reg_tx' = content
         /\ reg_tx_open' = TRUE
         /\ UNCHANGED <<realtime_active_users, rd_candidates>>

\* what a step of the script leaves alone
reg_rest == <<rtvars, rdvars, socvars, postvars, tkvars,
    schedvars, cycvars, webvars, insvars, fmtvars, callvars, startvars, pgvars, pfvars>>

\* the script is run (by cron or by hand)
RegStart ==
    /\ reg_pc = "idle"
    /\ reg_runs < MaxRegRuns
    /\ reg_runs' = reg_runs + 1
    /\ reg_pc' = "fetch_5m"
    /\ reg_resp' = <<>>
    /\ reg_outcome' = "running"
    /\ UNCHANGED <<provider_totals, reg_tx, reg_tx_open, realtime_active_users, rd_candidates>>
    /\ UNCHANGED reg_rest

RegFetch(at, key, next) ==
    /\ reg_pc = at
    /\ reg_resp' = (key :> provider_totals[key]) @@ reg_resp
    /\ reg_pc' = next
    /\ UNCHANGED <<provider_totals, reg_tx, reg_tx_open, reg_outcome, reg_runs,
                   realtime_active_users, rd_candidates>>
    /\ UNCHANGED reg_rest

RegFetch5m == RegFetch("fetch_5m", "active_5m", "fetch_30m")

RegFetch30m == RegFetch("fetch_30m", "active_30m", "save")

\* a report call raises: `except Exception`, the message, the script ends
RegFetchFails ==
    /\ reg_pc \in {"fetch_5m", "fetch_30m"}
    /\ reg_pc' = "idle"
    /\ reg_resp' = <<>>
    /\ reg_outcome' = "error"
    /\ UNCHANGED <<provider_totals, reg_tx, reg_tx_open, reg_runs, realtime_active_users,
                   rd_candidates>>
    /\ UNCHANGED reg_rest

\* variant: no TRUNCATE, the committed rows stay
RegisterKept == realtime_active_users

\* the register as TRUNCATE TABLE leaves it
RegisterTruncated == EmptyBag

\* cur.execute("TRUNCATE TABLE realtime_active_users")
RegTruncate ==
    /\ reg_pc = "save"
    /\ CanTruncate({"realtime_active_users"})
    /\ RegApply(RegisterTruncated)
    /\ reg_pc' = "insert"
    /\ UNCHANGED <<provider_totals, reg_resp, reg_outcome, reg_runs>>
    /\ UNCHANGED reg_rest

\* the INSERT of the one row, stamped with the time of the run
RegInsert ==
    /\ reg_pc = "insert"
    /\ RegApply(Insert(RegView, [ active_users_5m  |-> ScalarOf(reg_resp["active_5m"]),
                                  recorded_at      |-> reg_runs,
                                  active_users_30m |-> ScalarOf(reg_resp["active_30m"]) ]))
    /\ reg_pc' = "commit"
    /\ UNCHANGED <<provider_totals, reg_resp, reg_outcome, reg_runs>>
    /\ UNCHANGED reg_rest

\* conn.commit(), close, the [OK] message
RegCommit ==
    /\ reg_pc = "commit"
    /\ realtime_active_users' = RegView
    /\ ObserveRegister(realtime_active_users')
    /\ reg_tx' = EmptyBag
    /\ reg_tx_open' = FALSE
    /\ reg_pc' = "idle"
    /\ reg_resp' = <<>>
    /\ reg_outcome' = "ok"
    /\ UNCHANGED <<provider_totals, reg_runs>>
    /\ UNCHANGED reg_rest

\* a statement of save_to_db raises: nothing is committed, the script prints
\* the error and ends, and the server discards the open transaction
RegStatementFails ==
    /\ reg_pc \in {"insert", "commit"}
    /\ reg_tx' = EmptyBag
    /\ reg_tx_open' = FALSE
    /\ reg_pc' = "idle"
    /\ reg_resp' = <<>>
    /\ reg_outcome' = "error"
    /\ UNCHANGED <<provider_totals, reg_runs, realtime_active_users, rd_candidates>>
    /\ UNCHANGED reg_rest

----------------------------------------------------------------------------
(* The read endpoints of app.py *)

\* LIMIT 10 of /api/users-by-source and /api/views-by-page
TopLimit == 10

Endpoints == {"map-data", "users-by-source", "views-by-page", "active-users"}

\* committed rows of a table
CommittedTable(t) == IF t = "realtime_active_users" THEN realtime_active_users ELSE db[t]

\* the column of the ORDER BY ... DESC
OrderKey(e, r) ==
    CASE e = "map-data"        -> r.active_users_30min
      [] e = "users-by-source" -> r.active_users
      [] e = "views-by-page"   -> r.views

\* the orders in which the server may return the rows of the table
Ordered(e, table) ==
    LET n == BagCardinality(table)
        rows == BagToSet(table)
    IN  { s \in [1..n -> rows] :
            /\ \A r \in rows : Cardinality({i \in 1..n : s[i] = r}) = CopiesIn(r, table)
            /\ \A i \in 1..(n - 1) : OrderKey(e, s[i]) >= OrderKey(e, s[i + 1]) }

Limit(e, s) ==
    IF e = "map-data" \/ Len(s) <= TopLimit THEN s ELSE SubSeq(s, 1, TopLimit)

\* ORDER BY recorded_at DESC LIMIT 1
Latest(table) ==
    CHOOSE r \in BagToSet(table) : \A q \in BagToSet(table) : q.recorded_at <= r.recorded_at

\* variant: an autocommit connection, whose lock ends with the statement
LocksAfterSelectAutocommit(t) == rd_locks

\* the connection of get_db_connection() is not autocommit: the first SELECT
\* opens a transaction, and its ACCESS SHARE lock on the table is held until
\* the connection is closed
LocksAfterSelect(t) == rd_locks \cup {t}

\* what a step of a request leaves alone
rd_rest == <<rtvars, regvars, realtime_active_users, socvars, postvars, tkvars,
    schedvars, cycvars, webvars, insvars, fmtvars, callvars, startvars, pgvars, pfvars>>

\* a request arrives: get_db_connection()
ReadStart ==
    /\ rd_pc = "idle"
    /\ \E e \in Endpoints :
        /\ rd_endpoint' = e
        /\ rd_pc' = IF e = "active-users" THEN "select_5m" ELSE "select"
        /\ rd_candidates' = {CommittedTable(TableOf(e))}
    /\ users_5min' = 0
    /\ rd_response' = <<>>
    /\ rd_status' = "pending"
    /\ rd_locks' = {}
    /\ UNCHANGED rd_rest

\* cursor.execute(SELECT ...) and fetchall() of the three list endpoints
SelectRows ==
    /\ rd_pc = "select"
    /\ ~ExclusiveLocked(TableOf(rd_endpoint))
    /\ rd_locks' = LocksAfterSelect(TableOf(rd_endpoint))
    /\ \E s \in Ordered(rd_endpoint, CommittedTable(TableOf(rd_endpoint))) :
        rd_response' = Limit(rd_endpoint, s)
    /\ rd_pc' = "close"
    /\ UNCHANGED <<rd_endpoint, users_5min, rd_status, rd_candidates>>
    /\ UNCHANGED rd_rest

\* get_active_users: the first query and fetchone()[0]
SelectUsers5m ==
    /\ rd_pc = "select_5m"
    /\ ~ExclusiveLocked("realtime_active_users")
    /\ rd_locks' = LocksAfterSelect("realtime_active_users")
    /\ IF realtime_active_users = EmptyBag
       THEN /\ rd_pc' = "raised"
            /\ rd_status' = "exception"
            /\ UNCHANGED users_5min
       ELSE /\ rd_pc' = "select_30m"
            /\ users_5min' = Latest(realtime_active_users).active_users_5m
            /\ UNCHANGED rd_status
    /\ UNCHANGED <<rd_endpoint, rd_response, rd_candidates>>
    /\ UNCHANGED rd_rest

\* get_active_users: the second query and fetchone()[0]
SelectUsers30m ==
    /\ rd_pc = "select_30m"
    /\ ~ExclusiveLocked("realtime_active_users")
    /\ IF realtime_active_users = EmptyBag
       THEN /\ rd_pc' = "raised"
            /\ rd_status' = "exception"
            /\ UNCHANGED rd_response
       ELSE /\ rd_pc' = "close"
            /\ rd_response' = [ users_5min  |-> users_5min,
                                users_30min |-> Latest(realtime_active_users).active_users_30m ]
            /\ UNCHANGED rd_status
    /\ UNCHANGED <<rd_endpoint, users_5min, rd_locks, rd_candidates>>
    /\ UNCHANGED rd_rest

\* cursor.close(), conn.close(), jsonify
ReadClose ==
    /\ rd_pc = "close"
    /\ rd_pc' = "idle"
    /\ rd_status' = "ok"
    /\ rd_locks' = {}
    /\ UNCHANGED <<rd_endpoint, users_5min, rd_response, rd_candidates>>
    /\ UNCHANGED rd_rest

\* the view raised before conn.close(): the connection is closed when the
\* frame that holds it is released
ReadDrop ==
    /\ rd_pc = "raised"
    /\ rd_pc' = "idle"
    /\ rd_locks' = {}
    /\ UNCHANGED <<rd_endpoint, users_5min, rd_response, rd_status, rd_candidates>>
    /\ UNCHANGED rd_rest

----------------------------------------------------------------------------
(* Writers and a dashboard request, interleaved *)

DashboardProviders ==
    { [ users_5min  |-> <<[dim |-> "Hanoi", value |-> <<1, 2>>]>>,
        users_30min |-> <<[dim |-> "Hanoi", value |-> <<1, 2>>], [dim |-> "Da Nang", value |-> <<3>>]>>,
        by_device   |-> <<[dim |-> "mobile", value |-> <<1, 2>>]>>,
        by_page     |-> <<[dim |-> "Home", value |-> <<4, 0>>]>> ] }

DashboardTotals ==
    { [active_5m |-> <<[value |-> <<5>>]>>, active_30m |-> <<[value |-> <<3, 0>>]>>],
      [active_5m |-> <<>>,                  active_30m |-> <<[value |-> <<3, 0>>]>>] }

DashboardInit ==
    /\ provider \in DashboardProviders
    /\ db \in InitStores
    /\ realtime_active_users \in {EmptyBag, PriorRegister}
    /\ provider_totals \in DashboardTotals
    /\ CycleAtRest
    /\ RegisterAtRest
    /\ ReaderAtRest
    /\ ServiceAtRest
    /\ PageCycleAtRest
    /\ PostFetchAtRest
    /\ PageTablesAtRest
    /\ StartAtRest
    /\ CallsAtRest
    /\ FormatAtRest
    /\ InsightsAtRest
    /\ WebAtRest
    /\ SocialAtRest
    /\ TokenAtRest

DashboardNext ==
    \/ StartCycle
    \/ Fetch5min
    \/ Fetch30min
    \/ FetchDevice
    \/ FetchPage
    \/ FetchFails
    \/ ConnectFails
    \/ Truncate
    \/ InsertLocation
    \/ EndLocationLoop
    \/ InsertSource
    \/ EndSourceLoop
    \/ InsertPage
    \/ EndPageLoop
    \/ Commit
    \/ StatementFails
    \/ Terminate
    \/ Restart
    \/ RegStart
    \/ RegFetch5m
    \/ RegFetch30m
    \/ RegFetchFails
    \/ RegTruncate
    \/ RegInsert
    \/ RegCommit
    \/ RegStatementFails
    \/ ReadStart
    \/ SelectRows
    \/ SelectUsers5m
    \/ SelectUsers30m
    \/ ReadClose
    \/ ReadDrop

SpecDashboard == DashboardInit /\ [][DashboardNext]_vars

\* the responses that show the whole of one committed content of the table
Renderings(e, table) ==
    IF e = "active-users"
    THEN IF table = EmptyBag THEN {}
         ELSE {[ users_5min  |-> Latest(table).active_users_5m,
                 users_30min |-> Latest(table).active_users_30m ]}
    ELSE {Limit(e, s) : s \in Ordered(e, table)}

\* C2: a dashboard read interleaved with the write transactions answers
\* with the whole of one committed content of its table, the one before or
\* the one after a cycle; it never shows a truncated or partly refilled
\* table, and it fails on an empty register only if the register was
\* committed empty.
C2_ReadSeesWholeSnapshot ==
    /\ rd_status = "ok" =>
          rd_response \in UNION {Renderings(rd_endpoint, c) : c \in rd_candidates}
    /\ rd_status = "exception" => EmptyBag \in rd_candidates

\* a request during which a cycle committed other rows, answered
C2_Witness ==
    /\ rd_status = "ok"
    /\ rd_pc = "idle"
    /\ Cardinality(rd_candidates) >= 2

\* the register holds the counts the provider answers now
RegisterFresh ==
    \E r \in BagToSet(realtime_active_users) :
        /\ r.active_users_5m = ScalarOf(provider_totals.active_5m)
        /\ r.active_users_30m = ScalarOf(provider_totals.active_30m)

\* C3: after a realtime cycle either the three breakdown tables and the
\* register all hold the data of that cycle, or all four are unchanged.
C3_AllFourTogether ==
    /\ outcome = "success" => RegisterFresh
    /\ outcome \in {"fetch_error", "connect_error", "save_error"} =>
          (db = pre /\ realtime_active_users = pre_register)

\* a cycle committed the three tables while the register kept its old row
C3_Witness ==
    /\ outcome = "success"
    /\ db # pre
    /\ realtime_active_users = PriorRegister
    /\ ~RegisterFresh

----------------------------------------------------------------------------
(* The Facebook upsert writers: the daily-insights loop of                  *)
(* fetch_facebook_insights and save_post_insights. Columns the server       *)
(* stamps itself (created_at, updated_at) are left out of the rows.         *)

\* most metric blocks in an insights response
MaxBlocks == 1
\* most posts handed to save_post_insights
MaxPosts == 1

METRICS ==
    [m \in {"page_views_total", "page_media_view", "page_impressions_unique",
            "page_daily_follows"} |->
        CASE m = "page_views_total"        -> "Visits"
          [] m = "page_media_view"         -> "Views"
          [] m = "page_impressions_unique" -> "Viewers"
          [] m = "page_daily_follows"      -> "Follows"]

\* METRICS.get(metric_name, "Unknown")
ReportType(name) == IF name \in DOMAIN METRICS THEN METRICS[name] ELSE "Unknown"

\* datetime.fromisoformat(end_time).date(): the time of day is dropped
DateOf(end_time) == end_time.day

\* entry.get("value", 0)
EntryValue(entry) == IF entry.has_value THEN entry.value ELSE 0

\* entries of a metric block: (day, hour) of end_time and the value, if any
ValueLists ==
    LET e0 == [end_time |-> [day |-> 2, hour |-> 7], has_value |-> FALSE, value |-> 0]
        e1 == [end_time |-> [day |-> 1, hour |-> 7], has_value |-> TRUE, value |-> 10]
        e2 == [end_time |-> [day |-> 1, hour |-> 8], has_value |-> TRUE, value |-> 15]
        e3 == [end_time |-> [day |-> 2, hour |-> 7], has_value |-> TRUE, value |-> 10]
    IN  { <<>>, <<e0>>, <<e1>>, <<e3>>, <<e1, e2>> }

MetricBlocks ==
    {[name |-> "page_views_total", values |-> v] : v \in ValueLists}
        \cup {[name |-> "page_fans", values |-> v] : v \in {vl \in ValueLists : Len(vl) = 2}}

InsightsResponses == SeqsUpTo(MetricBlocks, MaxBlocks)

\* what GET /{page}/insights can answer: an HTTP error status, a body with
\* an "error" object, or a body with "data"
ApiReplies ==
    {[kind |-> "http_error", code |-> 0, data |-> <<>>]}
        \cup {[kind |-> "error", code |-> c, data |-> <<>>] : c \in {190, 102, 100}}
        \cup {[kind |-> "data", code |-> 0, data |-> d] : d \in InsightsResponses}

\* the key of the unique constraint of facebook_page_insights_daily
KeyOf(row) == <<row.metric, row.date>>

RECURSIVE CopiesSum(_, _)
CopiesSum(S, B) ==
    IF S = {} THEN 0
    ELSE LET r == CHOOSE x \in S : TRUE
         IN  CopiesIn(r, B) + CopiesSum(S \ {r}, B)

\* the table after an UPDATE that turns each row r into f[r]
MapBag(B, f) ==
    LET img == {f[r] : r \in BagToSet(B)}
    IN  [x \in img |-> CopiesSum({r \in BagToSet(B) : f[r] = x}, B)]

\* variant: a plain INSERT, without the ON CONFLICT clause
InsertDaily(table, row) == Insert(table, row)

\* INSERT ... ON CONFLICT (metric, date) DO UPDATE SET value = EXCLUDED.value
UpsertDaily(table, row) ==
    IF \E r \in BagToSet(table) : KeyOf(r) = KeyOf(row)
    THEN MapBag(table, [r \in BagToSet(table) |->
                           IF KeyOf(r) = KeyOf(row) THEN [r EXCEPT !.value = row.value] ELSE r])
    ELSE Insert(table, row)

\* the row fetch_facebook_insights writes for an entry of a metric block
DailyRow(block, entry) ==
    [ metric |-> block.name, report_type |-> ReportType(block.name),
      date |-> DateOf(entry.end_time), value |-> EntryValue(entry) ]

\* a row left by an earlier run, for a day no response of the model names
PriorDaily ==
    SetToBag({[metric |-> "page_views_total", report_type |-> "Visits", date |-> 0, value |-> 7]})

MeasuredFields ==
    { "post_impressions", "post_impressions_unique", "post_engaged_users", "post_reactions",
      "post_comments", "post_shares", "post_clicks", "video_views" }

\* a post as format_posts_for_database hands it over; m tells one
\* measurement of the post from another
Post(id, msg, m) ==
    [ post_id |-> id, post_message |-> msg, post_type |-> "status", created_time |-> 1,
      post_impressions |-> 10 * m + 1, post_impressions_unique |-> 10 * m + 2,
      post_engaged_users |-> 10 * m + 3, post_reactions |-> 10 * m + 4,
      post_comments |-> 10 * m + 5, post_shares |-> 10 * m + 6,
      post_clicks |-> 10 * m + 7, video_views |-> 10 * m + 8 ]

PostKinds == { Post("p1", "a", 1), Post("p1", "b", 2), Post("p2", "a", 1) }

PostLists == SeqsUpTo(PostKinds, MaxPosts)

PriorPosts == SetToBag({Post("p0", "old", 0)})

\* variant: ON CONFLICT (post_id) DO NOTHING
UpsertPostDoNothing(table, post) ==
    IF \E r \in BagToSet(table) : r.post_id = post.post_id THEN table ELSE Insert(table, post)

\* variant: the table is emptied before the post is written
UpsertPostReplacing(table, post) == SetToBag({post})

\* INSERT ... ON CONFLICT (post_id) DO UPDATE SET the eight measured fields
UpsertPost(table, post) ==
    IF \E r \in BagToSet(table) : r.post_id = post.post_id
    THEN MapBag(table, [r \in BagToSet(table) |->
                           IF r.post_id = post.post_id
                           THEN [f \in DOMAIN r |-> IF f \in MeasuredFields THEN post[f] ELSE r[f]]
                           ELSE r])
    ELSE Insert(table, post)

\* what a step of fetch_facebook_insights leaves alone
soc_rest == <<rtvars, realtime_active_users, regvars, rdvars, rd_candidates, postvars, tkvars,
    schedvars, cycvars, webvars, insvars, fmtvars, callvars, startvars, pgvars, pfvars>>

\* what a step of save_post_insights leaves alone
post_rest == <<rtvars, realtime_active_users, regvars, rdvars, rd_candidates, socvars, tkvars,
    schedvars, cycvars, webvars, insvars, fmtvars, callvars, startvars, pgvars, pfvars>>

\* the function returns False: its locals, and what its connection had not
\* committed, are gone
SocReturn(result) ==
    /\ soc_pc' = "idle"
    /\ soc_outcome' = result
    /\ access_token' = "none"
    /\ insights_data' = <<>>
    /\ blk' = 0
    /\ ent' = 0
    /\ daily_tx' = EmptyBag
    /\ tx_last' = <<>>

\* the script is run. The two writers share no table, so that their steps
\* commute: the model runs one of them at a time
SocStart ==
    /\ soc_pc = "idle"
    /\ post_pc = "idle"
    /\ soc_pc' = "token"
    /\ soc_outcome' = "running"
    /\ soc_requests' = 0
    /\ soc_events' = <<>>
    /\ access_token' = "none"
    /\ UNCHANGED <<daily, daily_tx, insights_data, blk, ent, last_upsert, tx_last>>
    /\ UNCHANGED soc_rest

\* what the cycle sees of an answer
AnswerOf(reply) ==
    CASE reply.kind = "http_error" -> "http_error"
      [] reply.kind = "error" -> IF reply.code = 190 \/ reply.code = 102
                                 THEN "token_error" ELSE "api_error"
      [] OTHER -> IF reply.data = <<>> THEN "no_data" ELSE "data"

\* variant: only code 190 counts as a token error
TokenErrorOnly190(reply) == reply.kind = "error" /\ reply.code = 190

\* `"error" in data` and data['error'].get('code') in [190, 102]
TokenError(reply) == reply.kind = "error" /\ reply.code \in {190, 102}

\* ACCESS_TOKEN = get_valid_page_token(), at the start or after a token error
SocGetToken ==
    /\ soc_pc \in {"token", "retry_token"}
    /\ \E t \in {"none", "page_token"} :
        /\ IF t = "none"
           THEN /\ SocReturn("no_token")
                /\ soc_events' = Append(soc_events, "gate_none")
                /\ UNCHANGED <<daily, soc_requests, last_upsert>>
           ELSE /\ access_token' = t
                /\ soc_events' = Append(soc_events, "gate_token")
                /\ soc_pc' = IF soc_pc = "token" THEN "request" ELSE "retry_request"
                /\ UNCHANGED <<daily, daily_tx, insights_data, blk, ent, soc_requests,
                               soc_outcome, last_upsert, tx_last>>
    /\ UNCHANGED soc_rest

\* variant: a body without data is written and committed like any other
SocTakeDataAnyway(reply) ==
    /\ insights_data' = IF reply.kind = "data" THEN reply.data ELSE <<>>
    /\ daily_tx' = daily
    /\ tx_last' = last_upsert
    /\ blk' = 1
    /\ ent' = 1
    /\ soc_pc' = "upsert"
    /\ UNCHANGED <<access_token, soc_outcome>>

\* data.get("data", []) of a body, then psycopg2.connect and the first
\* block of the loop
SocTakeData(reply) ==
    LET data == IF reply.kind = "data" THEN reply.data ELSE <<>>
    IN  IF data = <<>>
        THEN SocReturn("no_data")
        ELSE /\ insights_data' = data
             /\ daily_tx' = daily
             /\ tx_last' = last_upsert
             /\ blk' = 1
             /\ ent' = 1
             /\ soc_pc' = "upsert"
             /\ UNCHANGED <<access_token, soc_outcome>>

\* requests.get(INSIGHTS_URL): the first request of the cycle
SocRequest ==
    /\ soc_pc = "request"
    /\ soc_requests' = soc_requests + 1
    /\ \E reply \in ApiReplies :
        /\ soc_events' = Append(soc_events, AnswerOf(reply))
        /\ IF reply.kind = "http_error" THEN SocReturn("http_error")
           ELSE IF TokenError(reply)
                THEN /\ soc_pc' = "retry_token"
                     /\ UNCHANGED <<daily_tx, access_token, insights_data, blk, ent,
                                    soc_outcome, tx_last>>
                ELSE SocTakeData(reply)
    /\ UNCHANGED <<daily, last_upsert>>
    /\ UNCHANGED soc_rest

\* the one retry with the refreshed token
SocRetryRequest ==
    /\ soc_pc = "retry_request"
    /\ soc_requests' = soc_requests + 1
    /\ \E reply \in ApiReplies :
        /\ soc_events' = Append(soc_events, AnswerOf(reply))
        /\ IF reply.kind = "http_error" THEN SocReturn("http_error") ELSE SocTakeData(reply)
    /\ UNCHANGED <<daily, last_upsert>>
    /\ UNCHANGED soc_rest

\* one iteration of `for entry in metric_block.get("values", [])`
SocUpsert ==
    /\ soc_pc = "upsert"
    /\ blk <= Len(insights_data)
    /\ ent <= Len(insights_data[blk].values)
    /\ LET row == DailyRow(insights_data[blk], insights_data[blk].values[ent])
       IN  /\ daily_tx' = UpsertDaily(daily_tx, row)
           /\ tx_last' = (KeyOf(row) :> row.value) @@ tx_last
    /\ ent' = ent + 1
    /\ UNCHANGED <<daily, soc_pc, access_token, insights_data, blk, soc_requests, soc_events, soc_outcome,
                   last_upsert>>
    /\ UNCHANGED soc_rest

\* the inner loop ends: next iteration of `for metric_block in insights_data`
SocNextBlock ==
    /\ soc_pc = "upsert"
    /\ blk <= Len(insights_data)
    /\ ent > Len(insights_data[blk].values)
    /\ blk' = blk + 1
    /\ ent' = 1
    /\ UNCHANGED <<daily, daily_tx, soc_pc, access_token, insights_data, soc_requests, soc_events,
                   soc_outcome, last_upsert, tx_last>>
    /\ UNCHANGED soc_rest

\* conn.commit(), close, return True
SocCommit ==
    /\ soc_pc = "upsert"
    /\ blk > Len(insights_data)
    /\ daily' = daily_tx
    /\ last_upsert' = tx_last
    /\ SocReturn("success")
    /\ soc_events' = Append(soc_events, "commit")
    /\ UNCHANGED soc_requests
    /\ UNCHANGED soc_rest

\* a statement or the commit raises: `except Exception`, return False; the
\* connection is dropped with its transaction
SocFails ==
    /\ soc_pc = "upsert"
    /\ SocReturn("error")
    /\ soc_events' = Append(soc_events, "db_error")
    /\ UNCHANGED <<daily, soc_requests, last_upsert>>
    /\ UNCHANGED soc_rest

\* save_post_insights(posts_data) is called
PostStart ==
    /\ post_pc = "idle"
    /\ soc_pc = "idle"
    /\ \E pd \in PostLists :
        /\ IF pd = <<>>
           THEN /\ post_outcome' = "nothing_to_save"
                /\ UNCHANGED <<post_pc, posts_tx, posts_data, post_idx>>
           ELSE /\ post_outcome' = "running"
                /\ posts_data' = pd
                /\ post_pc' = "upsert"
                /\ posts_tx' = posts
                /\ post_idx' = 1
    /\ UNCHANGED posts
    /\ UNCHANGED post_rest

\* one iteration of `for post in posts_data`
PostUpsert ==
    /\ post_pc = "upsert"
    /\ post_idx <= Len(posts_data)
    /\ posts_tx' = UpsertPost(posts_tx, posts_data[post_idx])
    /\ post_idx' = post_idx + 1
    /\ UNCHANGED <<posts, post_pc, posts_data, post_outcome>>
    /\ UNCHANGED post_rest

\* conn.commit() and the finally clause
PostCommit ==
    /\ post_pc = "upsert"
    /\ post_idx > Len(posts_data)
    /\ posts' = posts_tx
    /\ posts_tx' = EmptyBag
    /\ post_pc' = "idle"
    /\ post_idx' = 0
    /\ post_outcome' = "saved"
    /\ posts_data' = <<>>
    /\ UNCHANGED post_rest

\* a statement or the commit raises: conn.rollback(), raise
PostFails ==
    /\ post_pc = "upsert"
    /\ posts_tx' = EmptyBag
    /\ post_pc' = "idle"
    /\ post_idx' = 0
    /\ post_outcome' = "error"
    /\ posts_data' = <<>>
    /\ UNCHANGED posts
    /\ UNCHANGED post_rest

SocialInit ==
    /\ provider \in DashboardProviders
    /\ db = EmptyTables
    /\ realtime_active_users = EmptyBag
    /\ provider_totals \in {t \in DashboardTotals : t.active_5m # <<>>}
    /\ CycleAtRest
    /\ RegisterAtRest
    /\ ReaderAtRest
    /\ ServiceAtRest
    /\ PageCycleAtRest
    /\ PostFetchAtRest
    /\ PageTablesAtRest
    /\ StartAtRest
    /\ CallsAtRest
    /\ FormatAtRest
    /\ InsightsAtRest
    /\ WebAtRest
    /\ TokenAtRest
    /\ SocialLocalsAtRest
    /\ daily \in {EmptyBag, PriorDaily}
    /\ posts = (IF daily = EmptyBag THEN EmptyBag ELSE PriorPosts)
    /\ last_upsert = (IF daily = EmptyBag THEN <<>> ELSE (<<"page_views_total", 0>> :> 7))

SocialNext ==
    \/ SocStart
    \/ SocGetToken
    \/ SocRequest
    \/ SocRetryRequest
    \/ SocUpsert
    \/ SocNextBlock
    \/ SocCommit
    \/ SocFails
    \/ PostStart
    \/ PostUpsert
    \/ PostCommit
    \/ PostFails

SpecSocial == SocialInit /\ [][SocialNext]_vars

\* the rows of the table with the key k
RowsOf(table, k) == {r \in BagToSet(table) : KeyOf(r) = k}

\* the table has one row per key of `latest`, with the value given there
OneRowPerKey(table, latest) ==
    /\ \A r \in BagToSet(table) :
          /\ CopiesIn(r, table) = 1
          /\ RowsOf(table, KeyOf(r)) = {r}
          /\ KeyOf(r) \in DOMAIN latest
    /\ \A k \in DOMAIN latest :
          \E r \in RowsOf(table, k) : r.value = latest[k]

\* C8: after any sequence of upserts facebook_page_insights_daily holds at
\* most one row per (metric, date), with the value of the most recent upsert
\* of that key; this holds of the committed rows and of the rows an open
\* transaction sees.
C8_OneRowPerMetricDate ==
    /\ OneRowPerKey(daily, last_upsert)
    /\ soc_pc = "upsert" => OneRowPerKey(daily_tx, tx_last)

\* value 10 then 15 for day 1 left one row with 15, beside the row of day 2
C8_Witness ==
    /\ soc_outcome = "success"
    /\ daily = SetToBag({
           [metric |-> "page_views_total", report_type |-> "Visits", date |-> 1, value |-> 15],
           [metric |-> "page_views_total", report_type |-> "Visits", date |-> 2, value |-> 10] })

\* the (metric, date) keys named in a response
DailyKeys(data) ==
    UNION { { <<data[b].name, DateOf(data[b].values[i].end_time)>> :
                i \in 1..Len(data[b].values) } : b \in 1..Len(data) }

PostIds(list) == {list[i].post_id : i \in 1..Len(list)}

\* C9: no step deletes a committed row of facebook_page_insights_daily or
\* of facebook_post_insights, and a step leaves as it was every daily row
\* whose (metric, date) is not in the response being saved and every post
\* row whose post_id is not among the posts being saved.
C9_FrameOfUpserts ==
    [][ /\ \A r \in BagToSet(daily) :
              /\ RowsOf(daily', KeyOf(r)) # {}
              /\ KeyOf(r) \notin DailyKeys(insights_data) =>
                    CopiesIn(r, daily') = CopiesIn(r, daily)
        /\ \A p \in BagToSet(posts) :
              /\ \E q \in BagToSet(posts') : q.post_id = p.post_id
              /\ p.post_id \notin PostIds(posts_data) =>
                    CopiesIn(p, posts') = CopiesIn(p, posts) ]_vars

\* both writers committed new rows beside the rows of the earlier run
C9_Witness ==
    /\ soc_outcome = "success"
    /\ post_outcome = "saved"
    /\ BagIn([metric |-> "page_views_total", report_type |-> "Visits", date |-> 0, value |-> 7], daily)
    /\ BagCardinality(daily) >= 2
    /\ BagIn(Post("p0", "old", 0), posts)
    /\ BagCardinality(posts) >= 2

----------------------------------------------------------------------------
(* The page-token gate get_valid_page_token and the refresh chain          *)
(* FacebookTokenManager.refresh_tokens. A token is a name; "none" is None. *)
(* A dict of token details is a record with the set of its keys.           *)

\* datetime.now().timestamp(), to the second
Now == 1000000

\* seconds_until_expiry > 3600
Hour == 3600

\* (expires_at - now) / 86400
SecondsPerDay == 86400

\* days_until_expiry < 7
UserTokenMinDays == 7

PAGE_ID == "page1"

\* expiry times the debug_token endpoint may report for a page token: never,
\* in 30 minutes, in exactly one hour, in one hour and a second
PageExpiries == {0, Now + 1800, Now + Hour, Now + Hour + 1}

\* for a user token: a second less than 7 days, and exactly 7 days
UserExpiries == {Now + UserTokenMinDays * SecondsPerDay - 1, Now + UserTokenMinDays * SecondsPerDay}

\* answers of GET /debug_token: a status other than 200, a body without
\* data, an invalid token, a valid token without or with expires_at
VerifyReplies(expiries) ==
    { [status_code |-> 500, keys |-> {}, is_valid |-> FALSE, expires_at |-> 0],
      [status_code |-> 200, keys |-> {}, is_valid |-> FALSE, expires_at |-> 0],
      [status_code |-> 200, keys |-> {"is_valid"}, is_valid |-> FALSE, expires_at |-> 0],
      [status_code |-> 200, keys |-> {"is_valid"}, is_valid |-> TRUE, expires_at |-> 0] }
        \cup { [status_code |-> 200, keys |-> {"is_valid", "expires_at"}, is_valid |-> TRUE,
                expires_at |-> e] : e \in expiries }

\* answers of GET /oauth/access_token
ExchangeReplies ==
    { [status_code |-> 400, access_token |-> "none"],
      [status_code |-> 200, access_token |-> "none"],
      [status_code |-> 200, access_token |-> "U_new"] }

\* answers of GET /me/accounts
PagesReplies ==
    { [status_code |-> 400, pages |-> <<>>],
      [status_code |-> 200, pages |-> <<>>],
      [status_code |-> 200, pages |-> <<[id |-> "page2", access_token |-> "P_other"]>>],
      [status_code |-> 200, pages |-> <<[id |-> "page2", access_token |-> "P_other"],
                                        [id |-> PAGE_ID, access_token |-> "P_new"]>>],
      [status_code |-> 200, pages |-> <<[id |-> PAGE_ID, access_token |-> "P_old"]>>] }

\* verify_token: the "data" of a 200 answer, else None
verify_token(reply) ==
    IF reply.status_code = 200
    THEN [none |-> FALSE, keys |-> reply.keys, is_valid |-> reply.is_valid,
          expires_at |-> reply.expires_at]
    ELSE NoInfo

\* variant: any answer with a body counts, whatever its is_valid says
IsValidAnyAnswer(info) == ~info.none /\ info.keys # {}

\* `token_info and token_info.get("is_valid")`
IsValid(info) == ~info.none /\ info.keys # {} /\ "is_valid" \in info.keys /\ info.is_valid

\* token_info.get("expires_at", 0)
ExpiresAt(info) == IF "expires_at" \in info.keys THEN info.expires_at ELSE 0

\* variant: any token that has not expired yet is used
UsableWithoutRefreshUnexpired(info) ==
    IsValid(info) /\ (ExpiresAt(info) = 0 \/ ExpiresAt(info) - Now > 0)

\* variant: a token with exactly one hour left is still used
UsableWithoutRefreshAtOneHour(info) ==
    IsValid(info) /\ (ExpiresAt(info) = 0 \/ ExpiresAt(info) - Now >= Hour)

\* get_valid_page_token, lines 27-41: the current token is returned as it is
UsableWithoutRefresh(info) ==
    IsValid(info) /\ (ExpiresAt(info) = 0 \/ ExpiresAt(info) - Now > Hour)

\* variant: the refreshed token is returned whatever its verification says
ReverifiedAlways(info) == TRUE

\* get_valid_page_token, line 58: the refreshed token passed verification
Reverified(info) == IsValid(info)

\* exchange_for_long_lived_token: data.get("access_token") of a 200 answer
LongLivedToken(reply) == IF reply.status_code = 200 THEN reply.access_token ELSE "none"

\* variant: the token of the first page listed, whatever its id
PageTokenOfFirstListed(reply) ==
    IF reply.status_code # 200 \/ reply.pages = <<>> THEN "none"
    ELSE reply.pages[1].access_token

\* get_page_access_token: the token of the first page whose id is page_id
PageTokenOf(reply) ==
    LET hits == {i \in 1..Len(reply.pages) : reply.pages[i].id = PAGE_ID}
    IN  IF reply.status_code # 200 \/ hits = {} THEN "none"
        ELSE reply.pages[CHOOSE i \in hits : \A j \in hits : i <= j].access_token

\* update_env_file(key, value): set_key writes the file, or raises and the
\* exception is printed and swallowed
update_env_file(key, value) ==
    /\ \E written \in BOOLEAN :
          /\ env' = IF written THEN [env EXCEPT ![key] = value] ELSE env
          /\ chain_failures' = IF written THEN chain_failures
                                ELSE chain_failures \cup {"persist_" \o key}
    /\ env_writes' = env_writes \cup {key}

\* what a step of the gate leaves alone
tk_rest == <<rtvars, realtime_active_users, regvars, rdvars, rd_candidates, socvars, postvars,
    schedvars, cycvars, webvars, insvars, fmtvars, callvars, startvars, pgvars, pfvars>>

\* get_valid_page_token returns None
GateFails ==
    /\ gate_result' = "failed"
    /\ tk_pc' = "returned"

\* get_valid_page_token() is called: load_dotenv, os.getenv
GateStart ==
    /\ tk_pc \in {"idle", "returned"}
    /\ current_token' = env.page
    /\ env_at_call' = env
    /\ token_info' = NoInfo
    /\ first_info' = NoInfo
    /\ user_token' = "none"
    /\ user_info' = NoInfo
    /\ new_token' = "none"
    /\ gate_result' = "pending"
    /\ refresh_ran' = FALSE
    /\ env_writes' = {}
    /\ gate_verified' = {}
    /\ chain_failures' = {}
    /\ refresh_result' = "none"
    /\ accounts_reply' = NoAccounts
    /\ tk_pc' = IF env.page # "none" THEN "verify_current" ELSE "refresh"
    /\ UNCHANGED env
    /\ UNCHANGED tk_rest

\* manager.verify_token(current_token) and the expiry test
GateVerifyCurrent ==
    /\ tk_pc = "verify_current"
    /\ \E reply \in VerifyReplies(PageExpiries) :
        LET info == verify_token(reply)
        IN  /\ token_info' = info
            /\ first_info' = info
            /\ gate_verified' = IF IsValid(info) THEN gate_verified \cup {current_token}
                                 ELSE gate_verified
            /\ IF UsableWithoutRefresh(info)
               THEN /\ gate_result' = current_token
                    /\ tk_pc' = "returned"
               ELSE /\ tk_pc' = "refresh"
                    /\ UNCHANGED gate_result
    /\ UNCHANGED <<env, current_token, user_token, user_info, new_token, refresh_ran,
                   env_writes, env_at_call, chain_failures, refresh_result, accounts_reply>>
    /\ UNCHANGED tk_rest

\* FacebookTokenManager(ENV_FILE).refresh_tokens() is entered
RefreshStart ==
    /\ tk_pc = "refresh"
    /\ refresh_ran' = TRUE
    /\ user_token' = env.user
    /\ tk_pc' = IF env.user # "none" THEN "verify_user" ELSE "get_page"
    /\ UNCHANGED <<env, current_token, token_info, first_info, user_info, new_token,
                   gate_result, env_writes, env_at_call, gate_verified, chain_failures, refresh_result, accounts_reply>>
    /\ UNCHANGED tk_rest

\* step 1: verify_token(self.user_token) and the 7-day test
RefreshVerifyUser ==
    /\ tk_pc = "verify_user"
    /\ \E reply \in VerifyReplies(UserExpiries) :
        LET info == verify_token(reply)
        IN  /\ user_info' = info
            /\ IF ~IsValid(info)
               THEN /\ GateFails
                    /\ refresh_result' = "False"
                    /\ chain_failures' = chain_failures \cup {"verify_user"}
               ELSE /\ tk_pc' = IF ExpiresAt(info) - Now < UserTokenMinDays * SecondsPerDay
                                THEN "exchange" ELSE "get_page"
                    /\ UNCHANGED <<gate_result, refresh_result, chain_failures>>
    /\ UNCHANGED <<env, current_token, token_info, first_info, user_token, new_token,
                   refresh_ran, env_writes, env_at_call, gate_verified, accounts_reply>>
    /\ UNCHANGED tk_rest

\* exchange_for_long_lived_token, and on success the new user token is kept
\* and written to the .env file
RefreshExchange ==
    /\ tk_pc = "exchange"
    /\ \E reply \in ExchangeReplies :
        IF LongLivedToken(reply) # "none"
        THEN /\ user_token' = LongLivedToken(reply)
             /\ update_env_file("user", LongLivedToken(reply))
        ELSE /\ chain_failures' = chain_failures \cup {"exchange"}
             /\ UNCHANGED <<user_token, env, env_writes>>
    /\ tk_pc' = "get_page"
    /\ UNCHANGED <<current_token, token_info, first_info, user_info, new_token, gate_result,
                   refresh_ran, env_at_call, gate_verified, refresh_result, accounts_reply>>
    /\ UNCHANGED tk_rest

\* step 2: get_page_access_token(self.user_token), and on success the page
\* token is written to the .env file
RefreshGetPage ==
    /\ tk_pc = "get_page"
    /\ \E reply \in PagesReplies :
        /\ accounts_reply' = reply
        /\ IF PageTokenOf(reply) = "none"
           THEN /\ GateFails
                /\ refresh_result' = "False"
                /\ chain_failures' = chain_failures \cup {"page"}
                /\ UNCHANGED <<env, env_writes>>
           ELSE /\ update_env_file("page", PageTokenOf(reply))
                /\ tk_pc' = "verify_page"
                /\ UNCHANGED <<gate_result, refresh_result>>
    /\ UNCHANGED <<current_token, token_info, first_info, user_token, user_info, new_token,
                   refresh_ran, env_at_call, gate_verified>>
    /\ UNCHANGED tk_rest

\* verify_token(page_token): the answer is printed; refresh_tokens returns True
RefreshVerifyPage ==
    /\ tk_pc = "verify_page"
    /\ \E reply \in VerifyReplies(PageExpiries) :
        chain_failures' = IF IsValid(verify_token(reply)) THEN chain_failures
                          ELSE chain_failures \cup {"verify_page"}
    /\ refresh_result' = "True"
    /\ tk_pc' = "reload"
    /\ UNCHANGED <<env, current_token, token_info, first_info, user_token, user_info,
                   new_token, gate_result, refresh_ran, env_writes, env_at_call, gate_verified, accounts_reply>>
    /\ UNCHANGED tk_rest

\* load_dotenv(override=True); new_token = os.getenv(...)
GateReload ==
    /\ tk_pc = "reload"
    /\ new_token' = env.page
    /\ IF env.page = "none"
       THEN GateFails
       ELSE /\ tk_pc' = "verify_new"
            /\ UNCHANGED gate_result
    /\ UNCHANGED <<env, current_token, token_info, first_info, user_token, user_info,
                   refresh_ran, env_writes, env_at_call, gate_verified, chain_failures, refresh_result, accounts_reply>>
    /\ UNCHANGED tk_rest

\* manager.verify_token(new_token)
GateVerifyNew ==
    /\ tk_pc = "verify_new"
    /\ \E reply \in VerifyReplies(PageExpiries) :
        LET info == verify_token(reply)
        IN  /\ token_info' = info
            /\ gate_verified' = IF IsValid(info) THEN gate_verified \cup {new_token}
                                 ELSE gate_verified
            /\ gate_result' = IF Reverified(info) THEN new_token ELSE "failed"
    /\ tk_pc' = "returned"
    /\ UNCHANGED <<env, current_token, first_info, user_token, user_info, new_token,
                   refresh_ran, env_writes, env_at_call, chain_failures, refresh_result, accounts_reply>>
    /\ UNCHANGED tk_rest

TokenInit ==
    /\ provider \in DashboardProviders
    /\ db = EmptyTables
    /\ realtime_active_users = EmptyBag
    /\ provider_totals \in {t \in DashboardTotals : t.active_5m # <<>>}
    /\ CycleAtRest
    /\ RegisterAtRest
    /\ ReaderAtRest
    /\ ServiceAtRest
    /\ PageCycleAtRest
    /\ PostFetchAtRest
    /\ PageTablesAtRest
    /\ StartAtRest
    /\ CallsAtRest
    /\ FormatAtRest
    /\ InsightsAtRest
    /\ WebAtRest
    /\ SocialAtRest
    /\ env \in [page : {"none", "P_old"}, user : {"none", "U_old"}]
    /\ GateAtRest

TokenNext ==
    \/ GateStart
    \/ GateVerifyCurrent
    \/ RefreshStart
    \/ RefreshVerifyUser
    \/ RefreshExchange
    \/ RefreshGetPage
    \/ RefreshVerifyPage
    \/ GateReload
    \/ GateVerifyNew

SpecToken == TokenInit /\ [][TokenNext]_vars

\* C10: get_valid_page_token returns the current page token, without
\* running the refresh chain and without writing configuration, exactly when
\* the token is set, verification reported it valid, and its expires_at is 0
\* (or absent) or more than one hour after now; in every other case the
\* refresh chain was run.
C10_ReturnsCurrentIffFresh ==
    tk_pc = "returned" =>
        LET fresh ==
                /\ current_token # "none"
                /\ ~first_info.none
                /\ "is_valid" \in first_info.keys
                /\ first_info.is_valid
                /\ \/ "expires_at" \notin first_info.keys
                   \/ first_info.expires_at = 0
                   \/ first_info.expires_at - Now > 3600
        IN  /\ fresh => /\ gate_result = current_token
                        /\ ~refresh_ran
                        /\ env_writes = {}
                        /\ env = env_at_call
            /\ ~fresh => refresh_ran

\* the current token, valid for one hour and a second, was returned as is
C10_Witness ==
    /\ tk_pc = "returned"
    /\ gate_result = "P_old"
    /\ current_token = "P_old"
    /\ first_info.expires_at = Now + 3601
    /\ ~refresh_ran

----------------------------------------------------------------------------
(* Properties of the token gate and of the refresh chain *)

\* the call found a page token that verified as valid, with half an hour left
HalfHourLeft ==
    /\ current_token # "none"
    /\ ~first_info.none
    /\ "is_valid" \in first_info.keys
    /\ first_info.is_valid
    /\ "expires_at" \in first_info.keys
    /\ first_info.expires_at = Now + 1800

C13_FailedRefreshReturnsNoToken ==
    (tk_pc = "returned" /\ refresh_ran /\ chain_failures # {}) => gate_result = "failed"

\* the page token could not be written; the call returned the token it
\* started with
C13_Witness ==
    /\ tk_pc = "returned"
    /\ refresh_ran
    /\ "persist_page" \in chain_failures
    /\ current_token = "P_old"
    /\ gate_result = "P_old"


\* the steps of the refresh chain: the long-lived exchange, the derivation of
\* the page token, the writes to the .env file and the verification of the
\* new page token
ChainSteps == {"exchange", "page", "persist_user", "persist_page", "verify_page"}

\* C14: when a step of the refresh chain failed (the long-lived exchange
\* when it was required, the derivation of the page token, a write of a
\* token to the configuration, or the verification of the new page token),
\* refresh_tokens reports failure.
C14_FailedStepIsTerminal ==
    (refresh_result # "none" /\ chain_failures \cap ChainSteps # {}) => refresh_result = "False"

\* the write of the page token failed and refresh_tokens returned True
C14_Witness ==
    /\ refresh_result = "True"
    /\ chain_failures = {"persist_page"}
    /\ env.page = env_at_call.page


\* GET /me/accounts answered, and no page listed has the configured id
PageNotFound ==
    /\ accounts_reply.status_code = 200
    /\ \A i \in 1..Len(accounts_reply.pages) : accounts_reply.pages[i].id # PAGE_ID

\* C15: when the account listing has no page with the configured id, the
\* refresh fails, the page token in the configuration is left as it was,
\* and get_valid_page_token returns failure.
C15_PageNotFoundFails ==
    (tk_pc = "returned" /\ PageNotFound) =>
        /\ refresh_result = "False"
        /\ gate_result = "failed"
        /\ env.page = env_at_call.page
        /\ "page" \notin env_writes

\* the listing held another page only, and the call failed
C15_Witness ==
    /\ tk_pc = "returned"
    /\ accounts_reply.status_code = 200
    /\ Len(accounts_reply.pages) = 1
    /\ accounts_reply.pages[1].id # PAGE_ID
    /\ env_at_call.page = "P_old"
    /\ gate_result = "failed"


----------------------------------------------------------------------------
(* Properties of the insights cycle: the retry after a token error *)

\* the places of the trace where an insights request was answered
RequestEvents ==
    {i \in DOMAIN soc_events :
        soc_events[i] \in {"http_error", "token_error", "api_error", "no_data", "data"}}

\* the places of the trace where get_valid_page_token returned
GateEvents == {i \in DOMAIN soc_events : soc_events[i] \in {"gate_none", "gate_token"}}

RetryFailed ==
    /\ Len(soc_events) >= 3
    /\ soc_events[2] = "token_error"
    /\ \/ soc_events[3] = "gate_none"
       \/ /\ Len(soc_events) >= 4
          /\ soc_events[4] \in {"http_error", "token_error", "api_error"}

\* C17: when the retry after a token error fails (no token is returned, or
\* the repeated request is answered with an error again), the cycle has
\* ended with a failure right there: it sends no further request, and it
\* neither writes nor commits anything to facebook_page_insights_daily.
C17_FailedRetryAborts ==
    [][RetryFailed' =>
          /\ soc_pc' = "idle"
          /\ soc_outcome' \in {"no_token", "http_error", "no_data"}
          /\ Len(soc_events') = (IF soc_events'[3] = "gate_none" THEN 3 ELSE 4)
          /\ soc_requests' = Len(soc_events') - 2
          /\ daily_tx' = EmptyBag
          /\ daily' = daily]_vars

\* the repeated request was answered with a token error again, and the cycle
\* returned without data
C17_Witness ==
    /\ soc_events = <<"gate_token", "token_error", "gate_token", "token_error">>
    /\ soc_pc = "idle"
    /\ soc_outcome = "no_data"


----------------------------------------------------------------------------
(* The service loop of auto_sync.py *)

\* SYNC_INTERVAL_MINUTES
SYNC_INTERVAL_MINUTES == 2

\* time.sleep(30) of the main loop, in seconds
SleepSeconds == 30

\* the interval of the schedule, counted in sleeps of the loop
IntervalSleeps == (SYNC_INTERVAL_MINUTES * 60) \div SleepSeconds

\* the loop is followed up to this time
MaxClock == 9

\* a call of sync_job takes at most this many sleeps of time
MaxJobSleeps == 1

\* how a cycle started by sync_job can end
JobResults == {"success", "fetch_error", "connect_error", "save_error"}

\* variant: sync_job has no except clause, so that the exception of a
\* failed cycle leaves sync_job and ends main()
AfterJobUncaught(result) == IF result = "success" THEN "running" ELSE "exited"

\* sync_job, lines 52-84: `except Exception` logs the failure and sync_job
\* returns normally, whatever the cycle did
AfterJob(result) == "running"

\* what a step of the service loop leaves alone
svc_rest == <<rt_others>>

\* main(): the health check, then the first sync_job() call
SvcMain ==
    /\ sched_pc = "stopped"
    /\ \E healthy \in BOOLEAN :
        IF healthy
        THEN /\ BeginCycle
             /\ sched_pc' = "first_job"
             /\ invoked_at' = Append(invoked_at, clock)
             /\ UNCHANGED exit_reason
        ELSE /\ sched_pc' = "exited"
             /\ exit_reason' = "health"
             /\ UNCHANGED <<rtvars, rd_candidates, invoked_at>>
    /\ UNCHANGED <<clock, next_run, sync_log>>
    /\ UNCHANGED svc_rest

\* schedule.run_pending(): sync_job is run when it is due. (check_health,
\* due every hour, has its own except clause and changes nothing.)
SvcRunPending ==
    /\ sched_pc = "loop"
    /\ IF clock >= next_run
       THEN /\ BeginCycle
            /\ sched_pc' = "in_job"
            /\ invoked_at' = Append(invoked_at, clock)
       ELSE /\ sched_pc' = "sleep"
            /\ UNCHANGED <<rtvars, rd_candidates, invoked_at>>
    /\ UNCHANGED <<clock, next_run, exit_reason, sync_log>>
    /\ UNCHANGED svc_rest

\* sync_job ends: "Sync completed" or "Sync failed" is logged; the schedule
\* sets the next run one interval after the end of the call (for the first
\* call, schedule.every(...).do(sync_job) does the same)
SvcJobReturns ==
    /\ sched_pc \in {"first_job", "in_job"}
    /\ pc = "idle"
    /\ outcome \in JobResults
    /\ \E d \in 0..MaxJobSleeps :
        /\ clock + d <= MaxClock
        /\ clock' = clock + d
        /\ sync_log' = Append(sync_log,
                [at |-> clock + d,
                 result |-> IF outcome = "success" THEN "completed" ELSE "failed"])
        /\ IF AfterJob(outcome) = "exited"
           THEN /\ sched_pc' = "exited"
                /\ exit_reason' = "crash"
                /\ UNCHANGED next_run
           ELSE /\ sched_pc' = IF sched_pc = "first_job" THEN "loop" ELSE "sleep"
                /\ next_run' = clock + d + IntervalSleeps
                /\ UNCHANGED exit_reason
    /\ UNCHANGED <<rtvars, rd_candidates, invoked_at>>
    /\ UNCHANGED svc_rest

\* time.sleep(30)
SvcSleep ==
    /\ sched_pc = "sleep"
    /\ clock < MaxClock
    /\ clock' = clock + 1
    /\ sched_pc' = "loop"
    /\ UNCHANGED <<rtvars, rd_candidates, next_run, exit_reason, invoked_at, sync_log>>
    /\ UNCHANGED svc_rest

\* Ctrl+C while the loop waits: `except KeyboardInterrupt`, sys.exit(0)
SvcInterrupt ==
    /\ sched_pc \in {"loop", "sleep"}
    /\ sched_pc' = "exited"
    /\ exit_reason' = "interrupt"
    /\ UNCHANGED <<rtvars, rd_candidates, clock, next_run, invoked_at, sync_log>>
    /\ UNCHANGED svc_rest

ServiceInit ==
    /\ provider \in DashboardProviders
    /\ db = EmptyTables
    /\ realtime_active_users = EmptyBag
    /\ provider_totals \in {t \in DashboardTotals : t.active_5m # <<>>}
    /\ CycleAtRest
    /\ RegisterAtRest
    /\ ReaderAtRest
    /\ ServiceAtRest
    /\ PageCycleAtRest
    /\ PostFetchAtRest
    /\ PageTablesAtRest
    /\ StartAtRest
    /\ CallsAtRest
    /\ FormatAtRest
    /\ InsightsAtRest
    /\ WebAtRest
    /\ SocialAtRest
    /\ TokenAtRest

ServiceNext ==
    \/ SvcMain
    \/ SvcRunPending
    \/ SvcJobReturns
    \/ SvcSleep
    \/ SvcInterrupt
    \/ Fetch5min
    \/ Fetch30min
    \/ FetchDevice
    \/ FetchPage
    \/ FetchFails
    \/ ConnectFails
    \/ Truncate
    \/ InsertLocation
    \/ EndLocationLoop
    \/ InsertSource
    \/ EndSourceLoop
    \/ InsertPage
    \/ EndPageLoop
    \/ Commit
    \/ StatementFails

SpecService == ServiceInit /\ [][ServiceNext]_vars

\* the calls of sync_job that have ended
EndedCalls == Len(invoked_at) - (IF sched_pc \in {"first_job", "in_job"} THEN 1 ELSE 0)

\* C20: a cycle of sync_job that fails is not run again in the same tick:
\* each call that ended has logged its result, a failure never ends the
\* service loop, the call after a failed one comes exactly one interval
\* after the failed call ended, and until then sync_job stays scheduled for
\* that time.
C20_FailedCycleWaitsForNextTick ==
    /\ exit_reason # "crash"
    /\ Len(sync_log) = EndedCalls
    /\ \A i \in 1..Len(sync_log) :
          sync_log[i].result = "failed" =>
              /\ i < Len(invoked_at) => invoked_at[i + 1] = sync_log[i].at + IntervalSleeps
              /\ (i = Len(invoked_at) /\ exit_reason = "none") =>
                    /\ sched_pc \in {"loop", "sleep"}
                    /\ next_run = sync_log[i].at + IntervalSleeps
                    /\ clock <= next_run
                    /\ sched_pc = "sleep" => clock < next_run

\* a call failed, and sync_job was called again one interval later
C20_Witness ==
    /\ Len(invoked_at) >= 2
    /\ sync_log[1].result = "failed"
    /\ invoked_at[2] = sync_log[1].at + IntervalSleeps
    /\ exit_reason = "none"


----------------------------------------------------------------------------
(* The social cycle: fetch_and_save_all_facebook_data *)

\* cycles followed
MaxCycles == 2

\* posts the post list holds at most
MaxCyclePosts == 1

\* an entry of the trace of the cycle
Event(op, what, ok) == [op |-> op, what |-> what, ok |-> ok]

\* what a step of the cycle leaves alone
cyc_rest == <<rtvars, realtime_active_users, regvars, rdvars, rd_candidates, socvars, postvars,
              tkvars, schedvars, webvars, insvars, fmtvars, callvars, startvars, pgvars, pfvars>>

\* the function is left, normally or by the re-raised exception
CycReturn(result, event) ==
    /\ cyc_pc' = "idle"
    /\ cyc_outcome' = result
    /\ cyc_events' = Append(cyc_events, event)
    /\ cyc_token' = "none"
    /\ cyc_stats' = "none"
    /\ cyc_insights' = "none"
    /\ cyc_posts' = 0
    /\ cyc_idx' = 0

\* save_page_stats, save_page_insights, save_post_insights,
\* calculate_and_save_summary_metrics: conn.commit() of the function's own
\* connection
SaveCommits(table) == fb_store' = [fb_store EXCEPT ![table] = cyc_no]

\* one save function with data to save: it commits, or a statement raises,
\* the function rolls back and re-raises, and the cycle is left
CycSave(table, next) ==
    \E ok \in BOOLEAN :
        IF ok
        THEN /\ SaveCommits(table)
             /\ cyc_events' = Append(cyc_events, Event("commit", table, TRUE))
             /\ cyc_pc' = next
             /\ UNCHANGED <<cyc_outcome, cyc_token, cyc_stats, cyc_insights, cyc_posts, cyc_idx>>
        ELSE /\ CycReturn("failed", Event("rollback", table, FALSE))
             /\ UNCHANGED fb_store

\* fetch_and_save_all_facebook_data() is called, by the script or by
\* GET /api/facebook/refresh: FacebookAPI() takes the page token from the
\* environment and raises ValueError when there is none
CycStart ==
    /\ cyc_pc = "idle"
    /\ cyc_no < MaxCycles
    /\ cyc_no' = cyc_no + 1
    /\ IF env.page = "none"
       THEN /\ cyc_pc' = "idle"
            /\ cyc_outcome' = "failed"
            /\ cyc_token' = "none"
       ELSE /\ cyc_pc' = "test"
            /\ cyc_outcome' = "running"
            /\ cyc_token' = env.page
    /\ cyc_events' = <<Event("getenv", "FACEBOOK_PAGE_ACCESS_TOKEN", env.page # "none")>>
    /\ cyc_stats' = "none"
    /\ cyc_insights' = "none"
    /\ cyc_posts' = 0
    /\ cyc_idx' = 0
    /\ UNCHANGED fb_store
    /\ UNCHANGED cyc_rest

\* fb.test_connection(): False makes the cycle raise
CycTest ==
    /\ cyc_pc = "test"
    /\ \E ok \in BOOLEAN :
        IF ok
        THEN /\ cyc_events' = Append(cyc_events, Event("fetch", "test_connection", TRUE))
             /\ cyc_pc' = "stats"
             /\ UNCHANGED <<cyc_outcome, cyc_token, cyc_stats, cyc_insights, cyc_posts, cyc_idx>>
        ELSE CycReturn("failed", Event("fetch", "test_connection", FALSE))
    /\ UNCHANGED <<cyc_no, fb_store>>
    /\ UNCHANGED cyc_rest

\* fb.get_page_current_stats(): an error is printed and {} is returned
CycStats ==
    /\ cyc_pc = "stats"
    /\ \E ok \in BOOLEAN :
        /\ cyc_events' = Append(cyc_events, Event("fetch", "page_stats", ok))
        /\ cyc_stats' = IF ok THEN "data" ELSE "empty"
    /\ cyc_pc' = "save_stats"
    /\ UNCHANGED <<cyc_outcome, cyc_token, cyc_insights, cyc_posts, cyc_idx, cyc_no, fb_store>>
    /\ UNCHANGED cyc_rest

\* save_page_stats(stats): nothing to save when stats is empty
CycSaveStats ==
    /\ cyc_pc = "save_stats"
    /\ IF cyc_stats = "empty"
       THEN /\ cyc_pc' = "growth"
            /\ UNCHANGED <<cyc_outcome, cyc_events, cyc_token, cyc_stats, cyc_insights,
                           cyc_posts, cyc_idx, fb_store>>
       ELSE CycSave("facebook_page_stats", "growth")
    /\ UNCHANGED cyc_no
    /\ UNCHANGED cyc_rest

\* calculate_fan_growth(): reads facebook_page_stats; only a failure to
\* connect leaves the function as an exception
CycFanGrowth ==
    /\ cyc_pc = "growth"
    /\ \E ok \in BOOLEAN :
        IF ok
        THEN /\ cyc_pc' = "insights"
             /\ UNCHANGED <<cyc_outcome, cyc_events, cyc_token, cyc_stats, cyc_insights,
                            cyc_posts, cyc_idx>>
        ELSE CycReturn("failed", Event("connect", "facebook_page_stats", FALSE))
    /\ UNCHANGED <<cyc_no, fb_store>>
    /\ UNCHANGED cyc_rest

\* fb.get_page_summary_metrics() and format_insights_for_database: a failed
\* request raises
CycInsights ==
    /\ cyc_pc = "insights"
    /\ \E r \in {"failed", "empty", "data"} :
        IF r = "failed"
        THEN CycReturn("failed", Event("fetch", "page_insights", FALSE))
        ELSE /\ cyc_events' = Append(cyc_events, Event("fetch", "page_insights", TRUE))
             /\ cyc_insights' = r
             /\ cyc_pc' = "save_insights"
             /\ UNCHANGED <<cyc_outcome, cyc_token, cyc_stats, cyc_posts, cyc_idx>>
    /\ UNCHANGED <<cyc_no, fb_store>>
    /\ UNCHANGED cyc_rest

\* save_page_insights(insights_formatted)
CycSaveInsights ==
    /\ cyc_pc = "save_insights"
    /\ IF cyc_insights = "empty"
       THEN /\ cyc_pc' = "posts"
            /\ UNCHANGED <<cyc_outcome, cyc_events, cyc_token, cyc_stats, cyc_insights,
                           cyc_posts, cyc_idx, fb_store>>
       ELSE CycSave("facebook_page_insights", "posts")
    /\ UNCHANGED cyc_no
    /\ UNCHANGED cyc_rest

\* get_posts_with_insights_last_7_days: the request of the post list; a
\* failed request raises
CycPosts ==
    /\ cyc_pc = "posts"
    /\ \E ok \in BOOLEAN, n \in 0..MaxCyclePosts :
        IF ~ok
        THEN /\ n = 0
             /\ CycReturn("failed", Event("fetch", "posts", FALSE))
        ELSE /\ cyc_events' = Append(cyc_events, Event("fetch", "posts", TRUE))
             /\ cyc_posts' = n
             /\ cyc_idx' = 0
             /\ cyc_pc' = IF n = 0 THEN "save_posts" ELSE "post_details"
             /\ UNCHANGED <<cyc_outcome, cyc_token, cyc_stats, cyc_insights>>
    /\ UNCHANGED <<cyc_no, fb_store>>
    /\ UNCHANGED cyc_rest

\* one iteration of `for post in posts`: get_post_insights and the request
\* of the engagement fields; the failure of either is swallowed
CycPostDetails ==
    /\ cyc_pc = "post_details"
    /\ cyc_idx < cyc_posts
    /\ \E insights_ok \in BOOLEAN, engagement_ok \in BOOLEAN :
        cyc_events' = cyc_events \o <<Event("fetch", "post_insights", insights_ok),
                                      Event("fetch", "post_engagement", engagement_ok)>>
    /\ cyc_idx' = cyc_idx + 1
    /\ cyc_pc' = IF cyc_idx + 1 = cyc_posts THEN "save_posts" ELSE "post_details"
    /\ UNCHANGED <<cyc_outcome, cyc_token, cyc_stats, cyc_insights, cyc_posts, cyc_no, fb_store>>
    /\ UNCHANGED cyc_rest

\* save_post_insights(posts_formatted)
CycSavePosts ==
    /\ cyc_pc = "save_posts"
    /\ IF cyc_posts = 0
       THEN /\ cyc_pc' = "summary"
            /\ UNCHANGED <<cyc_outcome, cyc_events, cyc_token, cyc_stats, cyc_insights,
                           cyc_posts, cyc_idx, fb_store>>
       ELSE CycSave("facebook_post_insights", "summary")
    /\ UNCHANGED cyc_no
    /\ UNCHANGED cyc_rest

\* calculate_and_save_summary_metrics(), then get_sync_summary() and the
\* report: the function returns
CycSummary ==
    /\ cyc_pc = "summary"
    /\ \E ok \in BOOLEAN :
        IF ok
        THEN /\ SaveCommits("facebook_metrics_summary")
             /\ CycReturn("success", Event("commit", "facebook_metrics_summary", TRUE))
        ELSE /\ CycReturn("failed", Event("rollback", "facebook_metrics_summary", FALSE))
             /\ UNCHANGED fb_store
    /\ UNCHANGED cyc_no
    /\ UNCHANGED cyc_rest

PageCycleInit ==
    /\ provider \in DashboardProviders
    /\ db = EmptyTables
    /\ realtime_active_users = EmptyBag
    /\ provider_totals \in {t \in DashboardTotals : t.active_5m # <<>>}
    /\ CycleAtRest
    /\ RegisterAtRest
    /\ ReaderAtRest
    /\ ServiceAtRest
    /\ PageCycleAtRest
    /\ PostFetchAtRest
    /\ PageTablesAtRest
    /\ StartAtRest
    /\ CallsAtRest
    /\ FormatAtRest
    /\ InsightsAtRest
    /\ WebAtRest
    /\ SocialAtRest
    /\ env \in [page : {"none", "P_old"}, user : {"none"}]
    /\ GateAtRest

PageCycleNext ==
    \/ CycStart
    \/ CycTest
    \/ CycStats
    \/ CycSaveStats
    \/ CycFanGrowth
    \/ CycInsights
    \/ CycSaveInsights
    \/ CycPosts
    \/ CycPostDetails
    \/ CycSavePosts
    \/ CycSummary

SpecPageCycle == PageCycleInit /\ [][PageCycleNext]_vars

\* the places of the trace where the provider was asked
FetchEvents == {i \in DOMAIN cyc_events : cyc_events[i].op = "fetch"}

\* the places of the trace where a write was committed
CommitEvents == {i \in DOMAIN cyc_events : cyc_events[i].op = "commit"}

\* C18: in a cycle of fetch_and_save_all_facebook_data every committed
\* write comes after all the fetches of the cycle, and a cycle with a failed
\* fetch commits nothing to a facebook_* table and ends as failed.
C18_WritesOnlyAfterAllFetches ==
    /\ \A w \in CommitEvents : \A f \in FetchEvents : f < w
    /\ (\E f \in FetchEvents : ~cyc_events[f].ok) =>
          /\ CommitEvents = {}
          /\ \A t \in FacebookTables : fb_store[t] # cyc_no
          /\ cyc_pc = "idle" => cyc_outcome = "failed"

\* the page statistics of the cycle are committed, and then the request of
\* the page insights failed
C18_Witness ==
    /\ cyc_pc = "idle"
    /\ cyc_outcome = "failed"
    /\ fb_store["facebook_page_stats"] = cyc_no
    /\ fb_store["facebook_page_insights"] # cyc_no
    /\ cyc_events[Len(cyc_events)] = Event("fetch", "page_insights", FALSE)

\* C19: every provider call of the social cycle is made with a page token
\* that the token gate (get_valid_page_token) returned earlier in the same
\* cycle.
C19_TokenEnsuredBeforeFetch ==
    \A f \in FetchEvents :
        \E g \in 1..(f - 1) : cyc_events[g] = Event("get_valid_page_token", cyc_token, TRUE)

\* the cycle took the page token from the environment and called the
\* provider with it
C19_Witness ==
    /\ Len(cyc_events) = 2
    /\ cyc_events[1] = Event("getenv", "FACEBOOK_PAGE_ACCESS_TOKEN", TRUE)
    /\ cyc_events[2].op = "fetch"
    /\ cyc_token = env.page

----------------------------------------------------------------------------
(* GET /api/refresh: refresh_data of app.py runs the realtime cycle in the  *)
(* web application, while the service of auto_sync.py runs its own          *)

\* refresh_data and refresh_facebook_data: the try block returned and the
\* success body is sent (200), or the except clause answered with 500
RefreshResponse(result) ==
    IF result = "success"
    THEN [code |-> 200, status |-> "success"]
    ELSE [code |-> 500, status |-> "error"]

\* the rows of a response, one insert each
RowsBag(rows) ==
    [r \in {rows[i] : i \in DOMAIN rows} |-> Cardinality({i \in DOMAIN rows : rows[i] = r})]

\* the tables as the three insert loops of save_to_database leave them after
\* the TRUNCATE
SaveToDatabase(data) ==
    LET users_5min_dict == BuildDict(data["users_5min"])
        users_30min_dict == BuildDict(data["users_30min"])
        all_cities == DOMAIN users_5min_dict \cup DOMAIN users_30min_dict
    IN  [ user_by_location |->
              SetToBag({ LocationRow(city, DictGet(users_5min_dict, city),
                                     DictGet(users_30min_dict, city)) :
                         city \in all_cities \cap DOMAIN VIETNAM_CITIES }),
          user_by_source |->
              RowsBag([i \in DOMAIN data["by_device"] |->
                          [source |-> data["by_device"][i].dim,
                           active_users |-> ToInt(data["by_device"][i].value)]]),
          views_by_page |->
              RowsBag([i \in DOMAIN data["by_page"] |->
                          [page_title |-> data["by_page"][i].dim,
                           screen_name |-> data["by_page"][i].dim,
                           views |-> ToInt(data["by_page"][i].value)]]) ]

\* what a step of refresh_data leaves alone
web_rest == <<provider, tx, tx_open, pc, ga4_data, todo, idx, outcome, pre, pre_register,
              realtime_active_users, regvars, rdvars, socvars, postvars, tkvars, schedvars,
              cycvars, insvars, fmtvars, callvars, startvars, pgvars, pfvars>>

\* the handler ends: the locals go out of scope
WebReturn(result) ==
    /\ web_pc' = "idle"
    /\ web_outcome' = result
    /\ web_data' = <<>>
    /\ web_tx' = EmptyTables

\* GET /api/refresh arrives
WebStart ==
    /\ web_pc = "idle"
    /\ web_pc' = "fetch"
    /\ web_outcome' = "running"
    /\ UNCHANGED <<web_data, web_tx, db, rd_candidates>>
    /\ UNCHANGED web_rest

\* fetch_ga4_realtime_data() returns the four responses
WebFetch ==
    /\ web_pc = "fetch"
    /\ web_data' = [k \in {"users_5min", "users_30min", "by_device", "by_page"} |-> provider[k]]
    /\ web_pc' = "save"
    /\ UNCHANGED <<web_tx, web_outcome, db, rd_candidates>>
    /\ UNCHANGED web_rest

\* one of the four report calls raises: except clause of refresh_data
WebFetchFails ==
    /\ web_pc = "fetch"
    /\ WebReturn("fetch_error")
    /\ UNCHANGED <<db, rd_candidates>>
    /\ UNCHANGED web_rest

\* get_db_connection() raises
WebConnectFails ==
    /\ web_pc = "save"
    /\ WebReturn("connect_error")
    /\ UNCHANGED <<db, rd_candidates>>
    /\ UNCHANGED web_rest

\* cursor.execute("TRUNCATE ..."): the connection begins its transaction and
\* sends the statement, which waits for ACCESS EXCLUSIVE on the three tables
WebBegin ==
    /\ web_pc = "save"
    /\ web_pc' = "truncate"
    /\ UNCHANGED <<web_data, web_tx, web_outcome, db, rd_candidates>>
    /\ UNCHANGED web_rest

\* the lock is granted once no other transaction holds a lock on the tables
WebTruncate ==
    /\ web_pc = "truncate"
    /\ ~tx_open
    /\ DOMAIN EmptyTables \cap rd_locks = {}
    /\ web_tx' = Truncated
    /\ web_pc' = "insert"
    /\ UNCHANGED <<web_data, web_outcome, db, rd_candidates>>
    /\ UNCHANGED web_rest

\* the three insert loops
WebInsert ==
    /\ web_pc = "insert"
    /\ web_tx' = SaveToDatabase(web_data)
    /\ web_pc' = "commit"
    /\ UNCHANGED <<web_data, web_outcome, db, rd_candidates>>
    /\ UNCHANGED web_rest

\* conn.commit(), the finally clause, jsonify of the success body
WebCommit ==
    /\ web_pc = "commit"
    /\ db' = web_tx
    /\ Observe(db')
    /\ WebReturn("success")
    /\ UNCHANGED web_rest

\* a statement raises: conn.rollback(), re-raise, except clause of
\* refresh_data
WebStatementFails ==
    /\ web_pc \in {"truncate", "insert", "commit"}
    /\ WebReturn("save_error")
    /\ UNCHANGED <<db, rd_candidates>>
    /\ UNCHANGED web_rest

RefreshInit ==
    /\ provider \in DashboardProviders
    /\ db \in InitStores
    /\ realtime_active_users = EmptyBag
    /\ provider_totals \in {t \in DashboardTotals : t.active_5m # <<>>}
    /\ CycleAtRest
    /\ RegisterAtRest
    /\ ReaderAtRest
    /\ ServiceAtRest
    /\ PageCycleAtRest
    /\ PostFetchAtRest
    /\ PageTablesAtRest
    /\ StartAtRest
    /\ CallsAtRest
    /\ FormatAtRest
    /\ InsightsAtRest
    /\ WebAtRest
    /\ SocialAtRest
    /\ TokenAtRest

RefreshNext ==
    \/ StartCycle
    \/ Fetch5min
    \/ Fetch30min
    \/ FetchDevice
    \/ FetchPage
    \/ FetchFails
    \/ ConnectFails
    \/ Truncate
    \/ InsertLocation
    \/ EndLocationLoop
    \/ InsertSource
    \/ EndSourceLoop
    \/ InsertPage
    \/ EndPageLoop
    \/ Commit
    \/ StatementFails
    \/ WebStart
    \/ WebFetch
    \/ WebFetchFails
    \/ WebConnectFails
    \/ WebBegin
    \/ WebTruncate
    \/ WebInsert
    \/ WebCommit
    \/ WebStatementFails

SpecRefresh == RefreshInit /\ [][RefreshNext]_vars

\* the callers whose write transaction on the replace tables is in progress
WriteTransactions ==
    (IF tx_open THEN {"sync_job"} ELSE {}) \cup
    (IF web_pc \in {"truncate", "insert", "commit"} THEN {"refresh_data"} ELSE {})

\* C21: at every moment at most one write transaction on the replace tables
\* is in progress, and it is the sync job's: no HTTP endpoint of the
\* dashboard has a write transaction on the store.
C21_SingleWriter ==
    /\ Cardinality(WriteTransactions) <= 1
    /\ WriteTransactions \subseteq {"sync_job"}

\* sync_job is inside its transaction while refresh_data has begun its own
\* and waits for the lock of the TRUNCATE
C21_Witness ==
    /\ tx_open
    /\ pc = "insert_location"
    /\ web_pc = "truncate"

----------------------------------------------------------------------------
(* GET /api/facebook/refresh: refresh_facebook_data of app.py               *)

\* C22: a refresh endpoint runs one cycle and answers with status "error"
\* and HTTP 500 exactly when the cycle raised, and with status "success"
\* only when every fetch of the cycle succeeded and its writes were
\* committed (here for GET /api/facebook/refresh).
C22_RefreshAnswersByOutcome ==
    (cyc_pc = "idle" /\ cyc_outcome \in {"success", "failed"}) =>
        LET answer == RefreshResponse(cyc_outcome)
        IN  /\ (answer = [code |-> 500, status |-> "error"]) <=> (cyc_outcome = "failed")
            /\ answer.status = "success" =>
                  /\ \A f \in FetchEvents : cyc_events[f].ok
                  /\ CommitEvents # {}
                  /\ \A i \in DOMAIN cyc_events : cyc_events[i].op # "rollback"

\* the request of the page statistics failed, nothing was written to
\* facebook_page_stats, and the endpoint answers "success"
C22_Witness ==
    /\ cyc_pc = "idle"
    /\ RefreshResponse(cyc_outcome) = [code |-> 200, status |-> "success"]
    /\ \E f \in FetchEvents : cyc_events[f] = Event("fetch", "page_stats", FALSE)
    /\ fb_store["facebook_page_stats"] # cyc_no

----------------------------------------------------------------------------
(* The read endpoints when the store fails, and                             *)
(* GET /api/facebook/daily_insights: get_facebook_insights of app.py        *)

\* CURRENT_DATE of the queries, as a day number
Today == 2

\* CURRENT_DATE - INTERVAL '1 days'
Yesterday == Today - 1

\* the four queries of get_facebook_insights, in order: the key of the
\* response and the report_type of the WHERE clause
InsightColumns ==
    << [key |-> "fb_views",   report_type |-> "Views"],
       [key |-> "fb_viewers", report_type |-> "Viewers"],
       [key |-> "fb_visits",  report_type |-> "Visits"],
       [key |-> "fb_follows", report_type |-> "Follows"] >>

\* the rows of yesterday with the report type
MatchingRowsOfYesterday(table, report_type) ==
    {r \in BagToSet(table) : r.date = Yesterday /\ r.report_type = report_type}

\* WHERE date >= CURRENT_DATE - INTERVAL '1 days' AND report_type = ...
MatchingRows(table, report_type) ==
    {r \in BagToSet(table) : r.date >= Yesterday /\ r.report_type = report_type}

\* `fetchone()[0] or 0`
ValueOr0(v) == IF v = 0 THEN 0 ELSE v

\* a row of facebook_page_insights_daily as fetch_facebook_insights writes it
InsightRow(metric, date, value) ==
    [metric |-> metric, report_type |-> ReportType(metric), date |-> date, value |-> value]

\* the rows of every metric for the days of `dates`; the value tells the
\* day and the metric
RowsOfDays(dates, metrics) ==
    SetToBag({ InsightRow(m, d, 100 * d + Len(m)) : m \in metrics, d \in dates })

\* contents of facebook_page_insights_daily left by earlier runs of the
\* script: any days among the last three, for every metric or without the
\* follows
DailyStores ==
    {RowsOfDays(dates, DOMAIN METRICS) : dates \in SUBSET ((Today - 2)..Today)}
        \cup {RowsOfDays({Yesterday}, DOMAIN METRICS \ {"page_daily_follows"})}

\* str(e) of an exception raised by psycopg2
StoreError == "psycopg2 error"

\* str(e) of the TypeError of `None[0]`
NoRowError == "'NoneType' object is not subscriptable"

\* what a step of get_facebook_insights leaves alone
ins_rest == <<rtvars, regvars, realtime_active_users, socvars, postvars, tkvars, schedvars,
              cycvars, webvars, users_5min, rd_locks, rd_candidates, fmtvars, callvars, startvars, pgvars, pfvars>>

\* GET /api/facebook/daily_insights arrives: get_db_connection(), cursor
InsightsStart ==
    /\ rd_pc = "idle"
    /\ rd_endpoint' = "facebook/daily_insights"
    /\ rd_pc' = "fb_select"
    /\ rd_fetched' = <<>>
    /\ rd_response' = <<>>
    /\ rd_status' = "pending"
    /\ UNCHANGED ins_rest

\* the next of the four queries and its `fetchone()[0] or 0`: the server
\* returns one of the matching rows; without a row fetchone() is None and
\* the TypeError reaches the except clause
InsightsSelect ==
    /\ rd_pc = "fb_select"
    /\ LET col == InsightColumns[Len(rd_fetched) + 1]
           rows == MatchingRows(daily, col.report_type)
       IN  IF rows = {}
           THEN /\ rd_response' = [error |-> NoRowError]
                /\ rd_status' = "error_json"
                /\ rd_pc' = "idle"
                /\ rd_fetched' = <<>>
           ELSE /\ \E r \in rows : rd_fetched' = Append(rd_fetched, ValueOr0(r.value))
                /\ rd_pc' = IF Len(rd_fetched) + 1 = Len(InsightColumns)
                            THEN "fb_close" ELSE "fb_select"
                /\ UNCHANGED <<rd_response, rd_status>>
    /\ UNCHANGED rd_endpoint
    /\ UNCHANGED ins_rest

\* cursor.close(), conn.close(), jsonify of the four values
InsightsClose ==
    /\ rd_pc = "fb_close"
    /\ rd_response' = [i \in {InsightColumns[k].key : k \in DOMAIN InsightColumns} |->
                          rd_fetched[CHOOSE k \in DOMAIN InsightColumns :
                                         InsightColumns[k].key = i]]
    /\ rd_status' = "ok"
    /\ rd_pc' = "idle"
    /\ rd_fetched' = <<>>
    /\ UNCHANGED rd_endpoint
    /\ UNCHANGED ins_rest

\* a query of get_facebook_insights raises inside the try block:
\* `except Exception as e: return jsonify({'error': str(e)}), 500`
InsightsQueryFails ==
    /\ rd_pc = "fb_select"
    /\ rd_response' = [error |-> StoreError]
    /\ rd_status' = "error_json"
    /\ rd_pc' = "idle"
    /\ rd_fetched' = <<>>
    /\ UNCHANGED rd_endpoint
    /\ UNCHANGED ins_rest

\* get_db_connection() raises: in each of the five views the call stands
\* outside any try block, and the exception leaves the view
ReadConnectFails ==
    /\ rd_pc = "idle"
    /\ \E e \in Endpoints \cup {"facebook/daily_insights"} : rd_endpoint' = e
    /\ rd_status' = "store_exception"
    /\ rd_response' = <<>>
    /\ rd_fetched' = <<>>
    /\ UNCHANGED rd_pc
    /\ UNCHANGED ins_rest

\* cursor.execute or a fetch raises in get_map_data, get_active_users,
\* get_users_by_source or get_views_by_page, which have no try block
ReadQueryFails ==
    /\ rd_pc \in {"select", "select_5m", "select_30m"}
    /\ rd_pc' = "raised"
    /\ rd_status' = "store_exception"
    /\ UNCHANGED <<rd_endpoint, rd_response, rd_fetched>>
    /\ UNCHANGED ins_rest

ReadsInit ==
    /\ provider \in DashboardProviders
    /\ db \in InitStores
    /\ realtime_active_users \in {EmptyBag, PriorRegister}
    /\ provider_totals \in {t \in DashboardTotals : t.active_5m # <<>>}
    /\ CycleAtRest
    /\ RegisterAtRest
    /\ ReaderAtRest
    /\ ServiceAtRest
    /\ PageCycleAtRest
    /\ PostFetchAtRest
    /\ PageTablesAtRest
    /\ StartAtRest
    /\ CallsAtRest
    /\ FormatAtRest
    /\ InsightsAtRest
    /\ WebAtRest
    /\ daily \in DailyStores
    /\ posts = EmptyBag
    /\ last_upsert = <<>>
    /\ SocialLocalsAtRest
    /\ TokenAtRest

ReadsNext ==
    \/ ReadStart
    \/ SelectRows
    \/ SelectUsers5m
    \/ SelectUsers30m
    \/ ReadClose
    \/ ReadDrop
    \/ ReadConnectFails
    \/ ReadQueryFails
    \/ InsightsStart
    \/ InsightsSelect
    \/ InsightsClose
    \/ InsightsQueryFails

SpecReads == ReadsInit /\ [][ReadsNext]_vars

\* C23: a read endpoint whose store access fails answers with the JSON body
\* {error: message}: no request ends in an exception that the store raised
\* and the view did not handle, and an error answer holds nothing but the
\* message.
C23_StoreFailureAnsweredAsJson ==
    /\ rd_status # "store_exception"
    /\ rd_status = "error_json" => DOMAIN rd_response = {"error"}

\* the query of GET /api/map-data raised and the exception left the view
C23_Witness ==
    /\ rd_endpoint = "map-data"
    /\ rd_pc = "raised"
    /\ rd_status = "store_exception"

\* C26: GET /api/facebook/daily_insights answers, for each of its four
\* keys, with the value of the row of facebook_page_insights_daily that is
\* dated yesterday and has the key's report type, whatever other dates the
\* table holds.
C26_ValuesOfYesterday ==
    (rd_endpoint = "facebook/daily_insights" /\ rd_status = "ok") =>
        \A k \in DOMAIN InsightColumns :
            \E r \in MatchingRowsOfYesterday(daily, InsightColumns[k].report_type) :
                rd_response[InsightColumns[k].key] = ValueOr0(r.value)

\* the table holds rows of yesterday and of today, and the answer shows the
\* views of today
C26_Witness ==
    /\ rd_endpoint = "facebook/daily_insights"
    /\ rd_status = "ok"
    /\ MatchingRowsOfYesterday(daily, "Views") # {}
    /\ \E r \in BagToSet(daily) :
          /\ r.date = Today
          /\ r.report_type = "Views"
          /\ rd_response["fb_views"] = r.value

----------------------------------------------------------------------------
(* GET /api/active-users beside the register script *)

\* the answer of get_active_users that shows the latest row of a register
ActiveUsersOf(register) ==
    [ users_5min  |-> Latest(register).active_users_5m,
      users_30min |-> Latest(register).active_users_30m ]

\* C24: the two counts that GET /api/active-users answers with come from
\* one and the same register row, the latest one, however the request is
\* interleaved with a run of the register script: the register does not
\* change between the two queries, and the answer shows both counts of the
\* latest row of one committed content of the register.
C24_BothCountsFromLatestRow ==
    rd_endpoint = "active-users" =>
        /\ rd_pc = "select_30m" =>
              /\ realtime_active_users # EmptyBag
              /\ users_5min = Latest(realtime_active_users).active_users_5m
        /\ rd_pc = "close" =>
              /\ realtime_active_users # EmptyBag
              /\ rd_response = ActiveUsersOf(realtime_active_users)
        /\ rd_status = "ok" =>
              \E c \in rd_candidates : c # EmptyBag /\ rd_response = ActiveUsersOf(c)

\* a run of the script committed a new row while the request was being
\* served, and the request was answered
C24_Witness ==
    /\ rd_endpoint = "active-users"
    /\ rd_status = "ok"
    /\ rd_pc = "idle"
    /\ PriorRegister \in rd_candidates
    /\ \E c \in rd_candidates : c # PriorRegister /\ c # EmptyBag

----------------------------------------------------------------------------
(* The register after save_to_db *)

\* the row save_to_db inserts in run number n of the script
RegisterRow(n) ==
    [ active_users_5m  |-> ScalarOf(provider_totals.active_5m),
      recorded_at      |-> n,
      active_users_30m |-> ScalarOf(provider_totals.active_30m) ]

\* C25: after any sequence of completed calls of save_to_db the table
\* realtime_active_users holds exactly one row, with the two counts of the
\* most recent completed call; a call that has not completed, or that
\* failed, leaves the committed row of the one before it.
C25_RegisterHoldsLastWrite ==
    /\ BagCardinality(realtime_active_users) <= 1
    /\ reg_outcome = "ok" => realtime_active_users = SetToBag({RegisterRow(reg_runs)})
    /\ \A r \in BagToSet(realtime_active_users) :
          r.recorded_at > 0 =>
              /\ r = RegisterRow(r.recorded_at)
              /\ r.recorded_at <= reg_runs

\* the second run of the script has committed over the row of the first
C25_Witness ==
    /\ reg_runs = 2
    /\ reg_outcome = "ok"
    /\ reg_pc = "idle"
    /\ realtime_active_users = SetToBag({RegisterRow(2)})

----------------------------------------------------------------------------
(* The post normalizer format_posts_for_database, followed by               *)
(* save_post_insights. A message is the sequence of its characters.         *)

\* the limit of `[:500]`
MessageLimit == 500

\* most posts in the list handed to the normalizer
MaxRawPosts == 1

\* a message of n characters, each told from the others by its position
Message(n) == [i \in 1..n |-> i]

\* the messages of the posts the provider lists
Messages == {Message(499), Message(500), Message(501), Message(600)}

\* the insights of a post: none (the request failed), or impressions and
\* reactions by type
InsightLists ==
    { <<>>,
      << [name |-> "post_impressions",
          values |-> <<[is_dict |-> FALSE, value |-> 11, counts |-> <<>>]>>],
         [name |-> "post_reactions_by_type_total",
          values |-> <<[is_dict |-> TRUE, value |-> 0, counts |-> <<2, 1>>]>>],
         [name |-> "post_clicks", values |-> <<>>] >> }

\* post_info of get_posts_with_insights_last_7_days
\* a post without text has no message
RawPosts ==
    [ id : {"p1"}, has_message : {TRUE}, message : Messages, insights : InsightLists,
      shares : {3}, comments : {4} ]
        \cup [ id : {"p1"}, has_message : {FALSE}, message : {<<>>}, insights : InsightLists,
               shares : {3}, comments : {4} ]

RawPostLists == SeqsUpTo(RawPosts, MaxRawPosts)

\* variant: the count of the first type stands for them all
FirstCountOf(counts) == IF counts = <<>> THEN 0 ELSE Head(counts)

\* sum(value.values())
RECURSIVE SumOf(_)
SumOf(counts) == IF counts = <<>> THEN 0 ELSE Head(counts) + SumOf(Tail(counts))

\* the loop `for insight in post.get('insights', [])`
RECURSIVE InsightsDict(_)
InsightsDict(insights) ==
    IF insights = <<>> THEN <<>>
    ELSE LET n == Len(insights)
             insight == insights[n]
             earlier == InsightsDict(SubSeq(insights, 1, n - 1))
         IN  IF insight.values = <<>> THEN earlier
             ELSE IF insight.name = "post_reactions_by_type_total"
                  THEN ("post_reactions" :>
                            (IF insight.values[1].is_dict
                             THEN SumOf(insight.values[1].counts) ELSE 0)) @@ earlier
                  ELSE (insight.name :> insight.values[1].value) @@ earlier

\* variant: the message is passed on whole
WholeMessage(message) == message

\* message[:500]
LimitMessage(message) ==
    SubSeq(message, 1, IF Len(message) < MessageLimit THEN Len(message) ELSE MessageLimit)

\* formatted_post of format_posts_for_database
FormatPost(post) ==
    LET insights_dict == InsightsDict(post.insights)
    IN  [ post_id |-> post.id,
          post_message |-> LimitMessage(IF post.has_message THEN post.message ELSE <<>>),
          post_type |-> "status", created_time |-> 1,
          post_impressions |-> DictGet(insights_dict, "post_impressions"),
          post_impressions_unique |-> DictGet(insights_dict, "post_impressions_unique"),
          post_engaged_users |-> DictGet(insights_dict, "post_engaged_users"),
          post_reactions |-> DictGet(insights_dict, "post_reactions"),
          post_comments |-> post.comments,
          post_shares |-> post.shares,
          post_clicks |-> DictGet(insights_dict, "post_clicks"),
          video_views |-> 0 ]

format_posts_for_database(posts_raw) == [i \in DOMAIN posts_raw |-> FormatPost(posts_raw[i])]

\* what a step of the normalizer leaves alone
fmt_rest == <<rtvars, realtime_active_users, regvars, rdvars, rd_candidates, socvars, tkvars,
              schedvars, cycvars, webvars, insvars, callvars, startvars, pgvars, pfvars>>

\* posts_formatted = format_posts_for_database(posts_raw), then
\* save_post_insights(posts_formatted) up to its first statement
FormatAndSavePosts ==
    /\ post_pc = "idle"
    /\ \E posts_raw \in RawPostLists :
        /\ raw_posts' = posts_raw
        /\ IF format_posts_for_database(posts_raw) = <<>>
           THEN /\ post_outcome' = "nothing_to_save"
                /\ UNCHANGED <<post_pc, posts_tx, posts_data, post_idx>>
           ELSE /\ post_outcome' = "running"
                /\ posts_data' = format_posts_for_database(posts_raw)
                /\ post_pc' = "upsert"
                /\ posts_tx' = posts
                /\ post_idx' = 1
    /\ UNCHANGED posts
    /\ UNCHANGED fmt_rest

PostsInit ==
    /\ provider \in DashboardProviders
    /\ db = EmptyTables
    /\ realtime_active_users = EmptyBag
    /\ provider_totals \in {t \in DashboardTotals : t.active_5m # <<>>}
    /\ CycleAtRest
    /\ RegisterAtRest
    /\ ReaderAtRest
    /\ ServiceAtRest
    /\ PageCycleAtRest
    /\ PostFetchAtRest
    /\ PageTablesAtRest
    /\ StartAtRest
    /\ CallsAtRest
    /\ FormatAtRest
    /\ InsightsAtRest
    /\ WebAtRest
    /\ TokenAtRest
    /\ SocialAtRest

PostsNext ==
    \/ FormatAndSavePosts
    \/ PostUpsert
    \/ PostCommit
    \/ PostFails

SpecPosts == PostsInit /\ [][PostsNext]_vars

\* what the interface asks to be stored for a message
FirstCharacters(message) ==
    IF Len(message) > 500 THEN [i \in 1..500 |-> message[i]] ELSE message

\* the posts of raw_posts that come first in the list with their id, and
\* whose id the table did not hold
NewPosts(table) ==
    { i \in DOMAIN raw_posts :
        /\ \A j \in 1..(i - 1) : raw_posts[j].id # raw_posts[i].id
        /\ \A r \in BagToSet(table) : r.post_id # raw_posts[i].id }

\* C27: the normalizer hands every post on with its message cut to the
\* first 500 characters when it is longer and unchanged otherwise, and
\* save_post_insights stores a new post with that message; a message of
\* 600 characters is stored as its first 500.
C27_MessageCutTo500 ==
    [][ /\ post_pc' = "upsert" =>
              /\ Len(posts_data') = Len(raw_posts')
              /\ \A i \in DOMAIN raw_posts' :
                    posts_data'[i].post_message =
                        FirstCharacters(IF raw_posts'[i].has_message
                                        THEN raw_posts'[i].message ELSE <<>>)
        /\ (post_pc = "upsert" /\ post_outcome' = "saved") =>
              \A i \in NewPosts(posts) :
                  \E r \in BagToSet(posts') :
                      /\ r.post_id = raw_posts[i].id
                      /\ CopiesIn(r, posts') = 1
                      /\ r.post_message = FirstCharacters(raw_posts[i].message)
                      /\ Len(raw_posts[i].message) = 600 => r.post_message = Message(500)
      ]_vars

\* a post with a message of 600 characters was saved, and the table holds
\* it with the first 500
C27_Witness ==
    /\ post_outcome = "saved"
    /\ raw_posts # <<>>
    /\ raw_posts[1].has_message
    /\ raw_posts[1].message = Message(600)
    /\ \E r \in BagToSet(posts) :
          r.post_id = raw_posts[1].id /\ r.post_message = Message(500)


\* ---------------------------------------------------------------------------
\* The run_realtime_report calls of the realtime cycle and of the register
\* script, against a provider that may leave a report without any answer
\* ---------------------------------------------------------------------------

\* timeout=30 of the two calls of fetch_realtime_active_users, in seconds
RequestTimeout == 30

\* the longest wait counted, in seconds; a call that is still unanswered then
\* goes on waiting, with nothing left to count
MaxWait == 33

\* the two requests of fetch_realtime_active_users, in call order
RegisterReportKeys == <<"active_users_5m", "active_users_30m">>

\* the report calls a program makes, in order
CallsOf(prog) == IF prog = "register_script" THEN RegisterReportKeys ELSE ReportKeys

AllReports == {ReportKeys[i] : i \in DOMAIN ReportKeys}
                  \cup {RegisterReportKeys[i] : i \in DOMAIN RegisterReportKeys}

\* whether the call passes timeout= : the calls of fetch_realtime_users.py do,
\* the four calls of fetch_ga4_realtime_data pass the request alone
HasTimeout(prog) == prog = "register_script"

\* the report of the call in flight
CallReport == CallsOf(call_prog)[call_idx]

call_rest == <<rtvars, realtime_active_users, regvars, rdvars, rd_candidates, socvars, postvars,
               tkvars, schedvars, cycvars, webvars, insvars, fmtvars, startvars, pgvars, pfvars>>

\* fetch_ga4_realtime_data() or fetch_realtime_active_users() is entered and
\* sends its first request
CallStart ==
    /\ call_pc \in {"idle", "ended"}
    /\ \E prog \in {"cycle", "register_script"} : call_prog' = prog
    /\ call_pc' = "calling"
    /\ call_idx' = 1
    /\ call_waited' = 0
    /\ call_outcome' = "none"
    /\ UNCHANGED <<never_answers, call_rest>>

\* the provider answers the call in flight: with a response, and the next
\* request is sent or the function returns, or with an error, which the call
\* raises
CallAnswered ==
    /\ call_pc = "calling"
    /\ CallReport \notin never_answers
    /\ \E ok \in BOOLEAN :
         IF ~ok
         THEN /\ call_pc' = "ended"
              /\ call_outcome' = "failed"
              /\ UNCHANGED call_idx
         ELSE IF call_idx < Len(CallsOf(call_prog))
         THEN /\ call_idx' = call_idx + 1
              /\ UNCHANGED <<call_pc, call_outcome>>
         ELSE /\ call_pc' = "ended"
              /\ call_outcome' = "fetched"
              /\ UNCHANGED call_idx
    /\ call_waited' = 0
    /\ UNCHANGED <<never_answers, call_prog, call_rest>>

\* a second passes without an answer; a call with timeout=30 does not wait
\* past its deadline
CallWait ==
    /\ call_pc = "calling"
    /\ CallReport \in never_answers
    /\ HasTimeout(call_prog) => call_waited < RequestTimeout
    /\ call_waited < MaxWait
    /\ call_waited' = call_waited + 1
    /\ UNCHANGED <<never_answers, call_pc, call_prog, call_idx, call_outcome, call_rest>>

\* the deadline of a call with timeout=30 passes: the call raises, and the
\* exception leaves the fetch function
CallTimesOut ==
    /\ call_pc = "calling"
    /\ CallReport \in never_answers
    /\ HasTimeout(call_prog)
    /\ call_waited >= RequestTimeout
    /\ call_pc' = "ended"
    /\ call_outcome' = "failed"
    /\ UNCHANGED <<never_answers, call_prog, call_idx, call_waited, call_rest>>

\* a call without timeout= is ended by whatever the client library or the
\* transport below it does on its own; nothing in the program asks for it
CallEndedByLibrary ==
    /\ call_pc = "calling"
    /\ CallReport \in never_answers
    /\ ~HasTimeout(call_prog)
    /\ call_pc' = "ended"
    /\ call_outcome' = "failed"
    /\ UNCHANGED <<never_answers, call_prog, call_idx, call_waited, call_rest>>

CallsInit ==
    /\ provider \in DashboardProviders
    /\ db = EmptyTables
    /\ realtime_active_users = EmptyBag
    /\ provider_totals \in {t \in DashboardTotals : t.active_5m # <<>>}
    /\ CycleAtRest
    /\ RegisterAtRest
    /\ ReaderAtRest
    /\ ServiceAtRest
    /\ PageCycleAtRest
    /\ PostFetchAtRest
    /\ PageTablesAtRest
    /\ StartAtRest
    /\ FormatAtRest
    /\ InsightsAtRest
    /\ WebAtRest
    /\ TokenAtRest
    /\ SocialAtRest
    /\ never_answers \in SUBSET AllReports
    /\ call_pc = "idle"
    /\ call_prog = "none"
    /\ call_idx = 0
    /\ call_waited = 0
    /\ call_outcome = "none"

CallsNext ==
    \/ CallStart
    \/ CallAnswered
    \/ CallWait
    \/ CallTimesOut
    \/ CallEndedByLibrary

\* the programs keep running and time passes; that a call without timeout=
\* is ever ended from below is not assumed
SpecCalls ==
    /\ CallsInit
    /\ [][CallsNext]_vars
    /\ WF_vars(CallAnswered)
    /\ WF_vars(CallWait)
    /\ WF_vars(CallTimesOut)

\* C28: every fetch of a realtime program ends: a report call the provider
\* never answers fails on its per-call timeout, whichever call of the cycle
\* or of the register script it is
C28_EveryReportCallEnds == (call_pc = "calling") ~> (call_pc = "ended")

\* a call of the cycle has waited longer than the 30 seconds the register
\* script allows its calls
C28_Witness ==
    /\ call_pc = "calling"
    /\ call_prog = "cycle"
    /\ CallReport \in never_answers
    /\ call_waited > RequestTimeout


\* ---------------------------------------------------------------------------
\* Start of the sync processes: initial_sync.py, auto_sync.py and
\* save_facebook_data.py, in an environment with some configuration keys unset
\* ---------------------------------------------------------------------------

\* the keys of the store
DbKeys == {"DB_HOST", "DB_PORT", "DB_NAME", "DB_USER", "DB_PASSWORD"}

\* the keys of the analytics provider
Ga4Keys == {"GA4_PROPERTY_ID", "GOOGLE_APPLICATION_CREDENTIALS"}

\* the keys of the social provider
FacebookKeys == {"FACEBOOK_PAGE_ID", "FACEBOOK_PAGE_ACCESS_TOKEN", "FACEBOOK_APP_ID",
                 "FACEBOOK_APP_SECRET", "FACEBOOK_API_VERSION"}

RequiredKeys == DbKeys \cup Ga4Keys \cup FacebookKeys

\* required_vars of initial_sync.py
required_vars == DbKeys \cup Ga4Keys

\* what FacebookAPI.__init__ refuses to start without
FacebookApiKeys == {"FACEBOOK_PAGE_ACCESS_TOKEN", "FACEBOOK_PAGE_ID"}

\* the most keys left unset in an environment
MaxMissing == 1

Environments ==
    {RequiredKeys \ missing : missing \in {m \in SUBSET RequiredKeys : Cardinality(m) <= MaxMissing}}

SyncProcesses == {"initial_sync", "auto_sync", "save_facebook_data"}

start_rest == <<rtvars, realtime_active_users, regvars, rdvars, rd_candidates, socvars, postvars,
                tkvars, schedvars, cycvars, webvars, insvars, fmtvars, callvars, pgvars, pfvars>>

\* the first step of each process
EntryOf(proc) ==
    CASE proc = "initial_sync" -> "check_env"
      [] proc = "auto_sync" -> "import_app"
      [] proc = "save_facebook_data" -> "FacebookAPI"

\* python initial_sync.py, python auto_sync.py or python save_facebook_data.py
StartProcess ==
    /\ st_pc = "stopped"
    /\ \E proc \in SyncProcesses :
         /\ st_proc' = proc
         /\ st_pc' = EntryOf(proc)
    /\ UNCHANGED <<cfg_keys, st_done, start_rest>>

\* initial_sync.py, step 1: every key of required_vars is looked up, and the
\* script exits when one is unset
InitialCheckEnv ==
    /\ st_pc = "check_env"
    /\ st_pc' = IF required_vars \subseteq cfg_keys THEN "db_test" ELSE "exited_config"
    /\ UNCHANGED <<cfg_keys, st_proc, st_done, start_rest>>

\* step 2: a connection to the store and two queries; any exception exits
InitialDbTest ==
    /\ st_pc = "db_test"
    /\ \E ok \in BOOLEAN : st_pc' = IF ok THEN "ga_test" ELSE "exited_error"
    /\ UNCHANGED <<cfg_keys, st_proc, st_done, start_rest>>

\* step 3: the credentials file is looked for, then one realtime report is
\* requested
InitialGaTest ==
    /\ st_pc = "ga_test"
    /\ \E file_exists \in BOOLEAN, ok \in BOOLEAN :
         IF ~file_exists
         THEN /\ st_pc' = "exited_error"
              /\ UNCHANGED st_done
         ELSE /\ st_done' = st_done \cup {"fetch"}
              /\ st_pc' = IF ok THEN "fetch" ELSE "exited_error"
    /\ UNCHANGED <<cfg_keys, st_proc, start_rest>>

\* step 4: fetch_ga4_realtime_data()
InitialFetch ==
    /\ st_pc = "fetch"
    /\ st_done' = st_done \cup {"fetch"}
    /\ \E ok \in BOOLEAN : st_pc' = IF ok THEN "save" ELSE "exited_error"
    /\ UNCHANGED <<cfg_keys, st_proc, start_rest>>

\* step 5: save_to_database(ga4_data), then the row counts are read back
InitialSave ==
    /\ st_pc = "save"
    /\ \E connected \in BOOLEAN, ok \in BOOLEAN :
         /\ st_done' = IF connected THEN st_done \cup {"write"} ELSE st_done
         /\ st_pc' = IF connected /\ ok THEN "completed" ELSE "exited_error"
    /\ UNCHANGED <<cfg_keys, st_proc, start_rest>>

\* auto_sync.py: from app import ... runs the top level of app.py, which
\* assigns os.getenv('GOOGLE_APPLICATION_CREDENTIALS') to os.environ and reads
\* every other key with os.getenv, unset or not
AutoImportApp ==
    /\ st_pc = "import_app"
    /\ st_pc' = IF "GOOGLE_APPLICATION_CREDENTIALS" \in cfg_keys THEN "check_health"
                ELSE "exited_type_error"
    /\ UNCHANGED <<cfg_keys, st_proc, st_done, start_rest>>

\* main(): check_health() connects to the store with whatever os.getenv gives,
\* None for an unset key, which the driver replaces by its own default
AutoCheckHealth ==
    /\ st_pc = "check_health"
    /\ \E ok \in BOOLEAN : st_pc' = IF ok THEN "sync_job" ELSE "exited_health"
    /\ UNCHANGED <<cfg_keys, st_proc, st_done, start_rest>>

\* main(): the first sync_job(): the reports are requested for
\* properties/{GA4_PROPERTY_ID}, the tables written when they all came back;
\* every exception is logged, and the service goes on to its schedule
AutoSyncJob ==
    /\ st_pc = "sync_job"
    /\ \E fetched \in BOOLEAN, connected \in BOOLEAN :
         st_done' = st_done \cup {"fetch"}
                        \cup (IF fetched /\ "GA4_PROPERTY_ID" \in cfg_keys /\ connected
                              THEN {"write"} ELSE {})
    /\ st_pc' = "running"
    /\ UNCHANGED <<cfg_keys, st_proc, start_rest>>

\* save_facebook_data.py: fb = FacebookAPI(); the ValueError of __init__ is
\* printed and raised again by fetch_and_save_all_facebook_data
FacebookApiInit ==
    /\ st_pc = "FacebookAPI"
    /\ st_pc' = IF FacebookApiKeys \subseteq cfg_keys THEN "test_connection" ELSE "exited_config"
    /\ UNCHANGED <<cfg_keys, st_proc, st_done, start_rest>>

\* fb.test_connection(): one request for the page
FacebookTestConnection ==
    /\ st_pc = "test_connection"
    /\ st_done' = st_done \cup {"fetch"}
    /\ \E ok \in BOOLEAN : st_pc' = IF ok THEN "fetch_and_save" ELSE "exited_error"
    /\ UNCHANGED <<cfg_keys, st_proc, start_rest>>

\* the rest of fetch_and_save_all_facebook_data: the fetches and the saves,
\* the store reached with DB_CONFIG
FacebookFetchAndSave ==
    /\ st_pc = "fetch_and_save"
    /\ \E connected \in BOOLEAN, ok \in BOOLEAN :
         /\ st_done' = st_done \cup (IF connected THEN {"fetch", "write"} ELSE {"fetch"})
         /\ st_pc' = IF connected /\ ok THEN "completed" ELSE "exited_error"
    /\ UNCHANGED <<cfg_keys, st_proc, start_rest>>

StartInit ==
    /\ provider \in DashboardProviders
    /\ db = EmptyTables
    /\ realtime_active_users = EmptyBag
    /\ provider_totals \in {t \in DashboardTotals : t.active_5m # <<>>}
    /\ CycleAtRest
    /\ RegisterAtRest
    /\ ReaderAtRest
    /\ ServiceAtRest
    /\ PageCycleAtRest
    /\ PostFetchAtRest
    /\ PageTablesAtRest
    /\ CallsAtRest
    /\ FormatAtRest
    /\ InsightsAtRest
    /\ WebAtRest
    /\ TokenAtRest
    /\ SocialAtRest
    /\ cfg_keys \in Environments
    /\ st_proc = "none"
    /\ st_pc = "stopped"
    /\ st_done = {}

StartNext ==
    \/ StartProcess
    \/ InitialCheckEnv
    \/ InitialDbTest
    \/ InitialGaTest
    \/ InitialFetch
    \/ InitialSave
    \/ AutoImportApp
    \/ AutoCheckHealth
    \/ AutoSyncJob
    \/ FacebookApiInit
    \/ FacebookTestConnection
    \/ FacebookFetchAndSave

SpecStart == StartInit /\ [][StartNext]_vars

\* C29: a sync process started with a required configuration key unset makes
\* no provider fetch and no store write, and does not get past its start-up
\* other than by stopping there
C29_MissingKeyStopsBeforeWork ==
    (st_proc # "none" /\ ~(RequiredKeys \subseteq cfg_keys)) =>
        /\ st_done = {}
        /\ st_pc \notin {"running", "completed", "exited_error"}

\* the service is in its loop without an analytics property id, its first
\* sync_job having called the provider
C29_Witness ==
    /\ st_proc = "auto_sync"
    /\ "GA4_PROPERTY_ID" \notin cfg_keys
    /\ st_pc = "running"
    /\ "fetch" \in st_done


\* ---------------------------------------------------------------------------
\* refresh_tokens, step 1: when the long-lived exchange is called
\* ---------------------------------------------------------------------------

\* a credential whose remaining lifetime is under 7 days: it expires, and
\* does so less than 7 days from now; expires_at 0 is a credential that never
\* expires
UnderSevenDays(info) ==
    /\ ExpiresAt(info) # 0
    /\ ExpiresAt(info) - Now < UserTokenMinDays * SecondsPerDay

\* C30: during a token refresh the long-lived exchange is called exactly when
\* the user credential verified as valid with less than 7 days of lifetime
\* left; with 7 days or more left there is no exchange call and the stored
\* user credential stays as it is
C30_ExchangeIffUnderSevenDays ==
    [][/\ RefreshVerifyUser =>
            ((tk_pc' = "exchange") <=> (IsValid(user_info') /\ UnderSevenDays(user_info')))
       /\ RefreshExchange => (IsValid(user_info) /\ UnderSevenDays(user_info))
       /\ (IsValid(user_info) /\ ~UnderSevenDays(user_info)) => env'.user = env.user]_vars

\* the exchange is about to be called for a valid user credential that never
\* expires
C30_Witness ==
    /\ tk_pc = "exchange"
    /\ IsValid(user_info)
    /\ ExpiresAt(user_info) = 0


\* ---------------------------------------------------------------------------
\* refresh_tokens with a user credential that fails verification
\* ---------------------------------------------------------------------------

\* verify_token returned nothing, or a body whose is_valid is missing or false
FailsVerification(info) == info.none \/ "is_valid" \notin info.keys \/ ~info.is_valid

\* refresh_tokens had a user credential to verify and has its answer
UserVerified ==
    /\ refresh_ran
    /\ env_at_call.user # "none"
    /\ tk_pc \notin {"verify_user"}

\* C39: when the stored user credential fails verification, refresh_tokens
\* returns failure, calls neither the token exchange nor the accessible-pages
\* endpoint, and writes no configuration key: both persisted credentials are
\* what they were
C39_InvalidUserEndsRefresh ==
    (UserVerified /\ FailsVerification(user_info)) =>
        /\ refresh_result = "False"
        /\ gate_result = "failed"
        /\ "exchange" \notin chain_failures
        /\ user_token = env_at_call.user
        /\ accounts_reply = NoAccounts
        /\ env_writes = {}
        /\ env = env_at_call

\* the answer for the user credential was is_valid false, and the refresh
\* has returned
C39_Witness ==
    /\ UserVerified
    /\ ~user_info.none
    /\ "is_valid" \in user_info.keys
    /\ ~user_info.is_valid
    /\ env_at_call.page # "none"
    /\ refresh_result = "False"


\* ---------------------------------------------------------------------------
\* format_posts_for_database on the answers a post's insights request can
\* give for the reactions metric
\* ---------------------------------------------------------------------------

\* most reaction types in a breakdown
MaxReactionTypes == 2

\* values[0] of the reactions metric: a breakdown by type (an empty one
\* included), or a plain number
ReactionValues ==
    { [is_dict |-> TRUE, value |-> 0, counts |-> c] : c \in SeqsUpTo(0..2, MaxReactionTypes) }
        \cup { [is_dict |-> FALSE, value |-> 5, counts |-> <<>>] }

\* the entry of post_reactions_by_type_total in the data of the answer: none,
\* one without values, one with a value
ReactionEntries ==
    { <<>>, <<[name |-> "post_reactions_by_type_total", values |-> <<>>]>> }
        \cup { <<[name |-> "post_reactions_by_type_total", values |-> <<v>>]>> : v \in ReactionValues }

\* the entries of the plain metrics before and after it
ImpressionEntries ==
    { <<>>, <<[name |-> "post_impressions",
               values |-> <<[is_dict |-> FALSE, value |-> 11, counts |-> <<>>]>>]>> }

ClickEntries ==
    { <<>>, <<[name |-> "post_clicks",
               values |-> <<[is_dict |-> FALSE, value |-> 7, counts |-> <<>>]>>]>> }

\* post_info with each of these answers
ReactionPosts ==
    { [ id |-> "p1", has_message |-> m # <<>>, message |-> m, insights |-> i \o r \o c,
        shares |-> 3, comments |-> 4 ] :
        m \in {<<>>, Message(3)}, i \in ImpressionEntries, r \in ReactionEntries,
        c \in ClickEntries }

\* posts_formatted = format_posts_for_database(posts_raw) for a list of one post
Normalize ==
    /\ post_pc = "idle"
    /\ \E post \in ReactionPosts :
        /\ raw_posts' = <<post>>
        /\ posts_data' = format_posts_for_database(<<post>>)
    /\ UNCHANGED <<posts, posts_tx, post_pc, post_idx, post_outcome>>
    /\ UNCHANGED fmt_rest

NormalizeInit == PostsInit

NormalizeNext == Normalize

SpecNormalize == NormalizeInit /\ [][NormalizeNext]_vars

\* the entries of a post's insights that carry the reactions metric
ReactionsOf(post) ==
    { k \in DOMAIN post.insights : post.insights[k].name = "post_reactions_by_type_total" }

\* the counts of a breakdown added up, one type after the other
TotalOf(counts) ==
    LET upto[k \in 0..Len(counts)] == IF k = 0 THEN 0 ELSE upto[k - 1] + counts[k]
    IN  upto[Len(counts)]

\* C33: a post whose reactions the provider reported as a breakdown by type
\* is normalized with post_reactions equal to the sum of the per-type counts,
\* and a post whose answer has no reactions metric with post_reactions 0
C33_ReactionsSummed ==
    \A n \in DOMAIN raw_posts :
        (n \in DOMAIN posts_data /\ posts_data[n].post_id = raw_posts[n].id) =>
            /\ ReactionsOf(raw_posts[n]) = {} => posts_data[n].post_reactions = 0
            /\ \A k \in ReactionsOf(raw_posts[n]) :
                  LET values == raw_posts[n].insights[k].values
                  IN  (values # <<>> /\ values[1].is_dict) =>
                          posts_data[n].post_reactions = TotalOf(values[1].counts)

\* a post with the breakdown 2 and 1 was normalized
C33_Witness ==
    /\ raw_posts # <<>>
    /\ Len(posts_data) = Len(raw_posts)
    /\ \E k \in ReactionsOf(raw_posts[1]) :
          /\ raw_posts[1].insights[k].values # <<>>
          /\ raw_posts[1].insights[k].values[1].counts = <<2, 1>>
    /\ posts_data[1].post_reactions = 3


\* ---------------------------------------------------------------------------
\* save_post_insights on a post the table already holds
\* ---------------------------------------------------------------------------

\* the post of the list that is written last with this id
LastWith(list, id) ==
    list[CHOOSE i \in DOMAIN list :
            /\ list[i].post_id = id
            /\ \A j \in DOMAIN list : list[j].post_id = id => j <= i]

\* C32: a committed run of save_post_insights leaves, for every post_id it
\* was given, one row whose eight measured fields are the new values, whether
\* the table held that post_id or not; rows of other post_ids are what they
\* were; and the table never holds two rows with one post_id
C32_PostUpsertOverwrites ==
    [][ /\ (post_pc = "upsert" /\ post_outcome' = "saved") =>
              /\ \A id \in PostIds(posts_data) :
                    \E r \in BagToSet(posts') :
                        /\ r.post_id = id
                        /\ \A f \in MeasuredFields : r[f] = LastWith(posts_data, id)[f]
              /\ \A p \in BagToSet(posts) :
                    p.post_id \notin PostIds(posts_data) =>
                        CopiesIn(p, posts') = CopiesIn(p, posts)
        /\ \A r \in BagToSet(posts') :
              /\ CopiesIn(r, posts') = 1
              /\ \A q \in BagToSet(posts') : q.post_id = r.post_id => q = r
      ]_vars

\* the post p1, first saved with one measurement, holds the values of a
\* later one, beside the row of an earlier run
C32_Witness ==
    /\ post_outcome = "saved"
    /\ BagIn(Post("p1", "a", 2), posts)
    /\ BagIn(Post("p0", "old", 0), posts)


----------------------------------------------------------------------------
(* The page tables of save_facebook_data.py: facebook_page_insights,       *)
(* facebook_page_stats and facebook_metrics_summary, with their writers    *)
(* and calculate_fan_growth. A date is a day number, CURRENT_DATE is Today.*)

\* what the provider names a page metric, and the column it is stored in
ColumnOf ==
    ( "page_views_total" :> "page_views" ) @@
    ( "page_impressions" :> "page_impressions" ) @@
    ( "page_impressions_unique" :> "page_impressions_unique" ) @@
    ( "page_post_engagements" :> "page_post_engagements" ) @@
    ( "page_posts_impressions" :> "page_posts_impressions" ) @@
    ( "page_actions_post_reactions_total" :> "page_reactions" ) @@
    ( "page_video_views" :> "page_video_views" )

\* the seven metric columns of facebook_page_insights
MetricColumns == {ColumnOf[m] : m \in DOMAIN ColumnOf}

\* most metric blocks in a response, and most writer calls followed
MaxPageBlocks == 2

MaxPageRuns == 2

\* the days within INTERVAL '7 days' of CURRENT_DATE
SevenDays == 7

\* the blocks of an insights response: a metric with no value, with one for
\* yesterday, or with one for yesterday and one for today
PageBlockKinds ==
    { [name |-> m, values |-> v] :
        m \in {"page_impressions", "page_post_engagements"},
        v \in { <<>>,
                <<[end_time |-> Yesterday, value |-> 0]>>,
                <<[end_time |-> Yesterday, value |-> 4], [end_time |-> Today, value |-> 8]>> } }

\* insights_raw: a body without 'data', or one with its blocks
PageResponses ==
    { [has_data |-> FALSE, data |-> <<>>] }
        \cup { [has_data |-> TRUE, data |-> d] : d \in SeqsUpTo(PageBlockKinds, MaxPageBlocks) }

\* the (metric, date, value) triples of a response, in the order of the two
\* loops of format_insights_for_database
RECURSIVE FlattenBlocks(_)
FlattenBlocks(blocks) ==
    IF blocks = <<>> THEN <<>>
    ELSE [i \in 1..Len(Head(blocks).values) |->
              [name |-> Head(blocks).name, date |-> Head(blocks).values[i].end_time,
               value |-> Head(blocks).values[i].value]] \o FlattenBlocks(Tail(blocks))

\* data_by_date[date][column] = value, for the metrics the mapping names
PutMetric(day, e) ==
    IF e.name \in DOMAIN ColumnOf THEN (ColumnOf[e.name] :> e.value) @@ day ELSE day

\* data_by_date after the triples, as the list of its values
RECURSIVE DataByDate(_)
DataByDate(es) ==
    IF es = <<>> THEN <<>>
    ELSE LET n == Len(es)
             earlier == DataByDate(SubSeq(es, 1, n - 1))
             at == {i \in DOMAIN earlier : earlier[i].insight_date = es[n].date}
         IN  IF at = {}
             THEN Append(earlier, PutMetric(("insight_date" :> es[n].date), es[n]))
             ELSE [i \in DOMAIN earlier |->
                      IF i \in at THEN PutMetric(earlier[i], es[n]) ELSE earlier[i]]

format_insights_for_database(insights_raw) ==
    IF ~insights_raw.has_data THEN <<>> ELSE DataByDate(FlattenBlocks(insights_raw.data))

\* the parameters of the INSERT of save_page_insights: data.get(column, 0)
InsightsRow(data) ==
    [c \in MetricColumns \cup {"insight_date"} |->
        IF c = "insight_date" THEN data.insight_date ELSE DictGet(data, c)]

\* variant: ON CONFLICT DO UPDATE SET of the columns the day's data holds
UpsertInsightsGiven(table, data) ==
    IF \E r \in table : r.insight_date = data.insight_date
    THEN { IF r.insight_date = data.insight_date
           THEN [c \in DOMAIN r |-> IF c \in DOMAIN data THEN data[c] ELSE r[c]]
           ELSE r : r \in table }
    ELSE table \cup {InsightsRow(data)}

\* INSERT INTO facebook_page_insights ... ON CONFLICT (insight_date) DO UPDATE
\* SET the seven metric columns
UpsertInsights(table, data) ==
    {r \in table : r.insight_date # data.insight_date} \cup {InsightsRow(data)}

\* INSERT INTO facebook_page_stats ... ON CONFLICT (stat_date) DO UPDATE
UpsertStats(table, stats_data) ==
    {r \in table : r.stat_date # Today}
        \cup {[stat_date |-> Today, fan_count |-> DictGet(stats_data, "fan_count"),
               followers_count |-> DictGet(stats_data, "followers_count")]}

\* ROUND((page_post_engagements::numeric / page_impressions::numeric) * 100, 2),
\* in hundredths of a percent
EngagementRate(r) ==
    IF r.page_impressions > 0
    THEN (2 * 10000 * r.page_post_engagements + r.page_impressions) \div (2 * r.page_impressions)
    ELSE 0

\* the SELECT of calculate_and_save_summary_metrics for one insight row
SummaryRow(r) ==
    [ metric_date |-> r.insight_date, total_views |-> r.page_views,
      total_viewers |-> r.page_impressions_unique,
      total_engagement |-> r.page_post_engagements, engagement_rate |-> EngagementRate(r) ]

\* WHERE insight_date >= CURRENT_DATE - INTERVAL '7 days'
InWindow(date) == date >= Today - SevenDays

\* variant: the table is rebuilt from the rows selected
SummaryRebuilt(summary, insights) ==
    {SummaryRow(r) : r \in {i \in insights : InWindow(i.insight_date)}}

\* INSERT INTO facebook_metrics_summary SELECT ... ON CONFLICT (metric_date)
\* DO UPDATE
UpsertSummary(summary, insights) ==
    LET selected == {SummaryRow(r) : r \in {i \in insights : InWindow(i.insight_date)}}
    IN  {s \in summary : \A n \in selected : n.metric_date # s.metric_date} \cup selected

\* the row the query of calculate_fan_growth returns: the latest of the rows
\* of the last 7 days, with LAG(fan_count) over those rows
FanGrowthQuery(stats) ==
    LET recent == {r \in stats : r.stat_date >= Today - SevenDays}
    IN  IF recent = {} THEN <<>>
        ELSE LET last == CHOOSE r \in recent : \A o \in recent : o.stat_date <= r.stat_date
                 before == {r \in recent : r.stat_date < last.stat_date}
             IN  IF before = {}
                 THEN <<[fan_count |-> last.fan_count, has_previous |-> FALSE,
                         previous_fan_count |-> 0]>>
                 ELSE LET prev == CHOOSE r \in before : \A o \in before : o.stat_date <= r.stat_date
                      IN  <<[fan_count |-> last.fan_count, has_previous |-> TRUE,
                             previous_fan_count |-> prev.fan_count]>>

\* calculate_fan_growth: `if result and result[2]`
calculate_fan_growth(stats) ==
    LET result == FanGrowthQuery(stats)
    IN  IF result # <<>> /\ result[1].has_previous /\ result[1].previous_fan_count # 0
        THEN [called |-> TRUE, available |-> TRUE,
              growth |-> result[1].fan_count - result[1].previous_fan_count]
        ELSE [called |-> TRUE, available |-> FALSE, growth |-> 0]

\* what a step on the page tables leaves alone
pg_rest == <<rtvars, realtime_active_users, regvars, rdvars, rd_candidates, socvars, postvars,
             tkvars, schedvars, cycvars, webvars, insvars, fmtvars, callvars, startvars, pfvars>>

\* insights_formatted = format_insights_for_database(insights_raw), then
\* save_page_insights(insights_formatted) up to its first statement
SavePageInsightsStart ==
    /\ pg_pc = "idle"
    /\ pg_runs < MaxPageRuns
    /\ pg_runs' = pg_runs + 1
    /\ \E raw \in PageResponses :
        /\ IF format_insights_for_database(raw) = <<>>
           THEN /\ pg_outcome' = "nothing_to_save"
                /\ UNCHANGED <<pg_pc, pg_tx, pg_raw, pg_data, pg_idx>>
           ELSE /\ pg_outcome' = "running"
                /\ pg_raw' = raw
                /\ pg_data' = format_insights_for_database(raw)
                /\ pg_pc' = "save_page_insights"
                /\ pg_tx' = page_insights
                /\ pg_idx' = 1
    /\ UNCHANGED <<page_insights, page_stats, metrics_summary, fan_growth>>
    /\ UNCHANGED pg_rest

\* one iteration of `for data in insights_data`
SavePageInsightsUpsert ==
    /\ pg_pc = "save_page_insights"
    /\ pg_idx <= Len(pg_data)
    /\ pg_tx' = UpsertInsights(pg_tx, pg_data[pg_idx])
    /\ pg_idx' = pg_idx + 1
    /\ UNCHANGED <<page_insights, page_stats, metrics_summary, pg_pc, pg_raw, pg_data,
                   pg_outcome, pg_runs, fan_growth>>
    /\ UNCHANGED pg_rest

\* save_page_stats(stats): nothing for an empty dict, else the one statement
SavePageStats ==
    /\ pg_pc = "idle"
    /\ pg_runs < MaxPageRuns
    /\ pg_runs' = pg_runs + 1
    /\ \E stats_data \in { <<>>, [fan_count |-> 0, followers_count |-> 0],
                            [fan_count |-> 120, followers_count |-> 130] } :
        IF stats_data = <<>>
        THEN /\ pg_outcome' = "nothing_to_save"
             /\ UNCHANGED <<pg_pc, pg_tx>>
        ELSE /\ pg_outcome' = "running"
             /\ pg_pc' = "save_page_stats"
             /\ pg_tx' = UpsertStats(page_stats, stats_data)
    /\ UNCHANGED <<page_insights, page_stats, metrics_summary, pg_raw, pg_data, pg_idx,
                   fan_growth>>
    /\ UNCHANGED pg_rest

\* calculate_and_save_summary_metrics(): the one statement
SaveSummary ==
    /\ pg_pc = "idle"
    /\ pg_runs < MaxPageRuns
    /\ pg_runs' = pg_runs + 1
    /\ pg_outcome' = "running"
    /\ pg_pc' = "calculate_and_save_summary_metrics"
    /\ pg_tx' = UpsertSummary(metrics_summary, page_insights)
    /\ UNCHANGED <<page_insights, page_stats, metrics_summary, pg_raw, pg_data, pg_idx,
                   fan_growth>>
    /\ UNCHANGED pg_rest

\* conn.commit() of the writer, and its finally clause
PgCommit ==
    /\ pg_pc # "idle"
    /\ pg_pc = "save_page_insights" => pg_idx > Len(pg_data)
    /\ page_insights' = IF pg_pc = "save_page_insights" THEN pg_tx ELSE page_insights
    /\ page_stats' = IF pg_pc = "save_page_stats" THEN pg_tx ELSE page_stats
    /\ metrics_summary' = IF pg_pc = "calculate_and_save_summary_metrics" THEN pg_tx
                          ELSE metrics_summary
    /\ pg_outcome' = "saved"
    /\ pg_pc' = "idle"
    /\ pg_tx' = {}
    /\ pg_raw' = [has_data |-> FALSE, data |-> <<>>]
    /\ pg_data' = <<>>
    /\ pg_idx' = 0
    /\ UNCHANGED <<pg_runs, fan_growth>>
    /\ UNCHANGED pg_rest

\* variant: the connection commits each statement as it is executed, so
\* that the rows written before the failure stay
PgFailsKeepingRows ==
    /\ pg_pc # "idle"
    /\ page_insights' = IF pg_pc = "save_page_insights" THEN pg_tx ELSE page_insights
    /\ pg_outcome' = "error"
    /\ pg_pc' = "idle"
    /\ pg_tx' = {}
    /\ pg_raw' = [has_data |-> FALSE, data |-> <<>>]
    /\ pg_data' = <<>>
    /\ pg_idx' = 0
    /\ UNCHANGED <<page_stats, metrics_summary, pg_runs, fan_growth>>
    /\ UNCHANGED pg_rest

\* a statement or the commit raises: conn.rollback(), raise
PgFails ==
    /\ pg_pc # "idle"
    /\ pg_outcome' = "error"
    /\ pg_pc' = "idle"
    /\ pg_tx' = {}
    /\ pg_raw' = [has_data |-> FALSE, data |-> <<>>]
    /\ pg_data' = <<>>
    /\ pg_idx' = 0
    /\ UNCHANGED <<page_insights, page_stats, metrics_summary, pg_runs, fan_growth>>
    /\ UNCHANGED pg_rest

\* fan_growth = calculate_fan_growth()
CalculateFanGrowth ==
    /\ pg_pc = "idle"
    /\ fan_growth' = calculate_fan_growth(page_stats)
    /\ UNCHANGED <<page_insights, page_stats, metrics_summary, pg_pc, pg_tx, pg_raw, pg_data,
                   pg_idx, pg_outcome, pg_runs>>
    /\ UNCHANGED pg_rest

\* rows of facebook_page_insights left by earlier cycles: of eight days ago,
\* of seven days ago and of yesterday; each metric of a day is 10 + the day
PriorInsights ==
    { [c \in MetricColumns \cup {"insight_date"} |-> IF c = "insight_date" THEN d ELSE 10 + d] :
        d \in {Today - SevenDays - 1, Today - SevenDays, Yesterday} }

\* the summary rows those cycles left: of eight days ago, and of yesterday
\* with values that are out of date
PriorSummary ==
    { [metric_date |-> Today - SevenDays - 1, total_views |-> 3, total_viewers |-> 3,
       total_engagement |-> 3, engagement_rate |-> 10000],
      [metric_date |-> Yesterday, total_views |-> 1, total_viewers |-> 1,
       total_engagement |-> 1, engagement_rate |-> 1] }

\* rows of facebook_page_stats left by earlier cycles
PriorStats ==
    { [stat_date |-> d, fan_count |-> f, followers_count |-> 1] :
        d \in {Today - 8, Yesterday}, f \in {0, 100} }

\* the stores the writers may find: at most one row per date
PriorStatsStores ==
    { s \in SUBSET PriorStats : \A a, b \in s : a.stat_date = b.stat_date => a = b }

PageTablesInit ==
    /\ provider \in DashboardProviders
    /\ db = EmptyTables
    /\ realtime_active_users = EmptyBag
    /\ provider_totals \in {t \in DashboardTotals : t.active_5m # <<>>}
    /\ CycleAtRest
    /\ RegisterAtRest
    /\ ReaderAtRest
    /\ ServiceAtRest
    /\ PageCycleAtRest
    /\ PostFetchAtRest
    /\ StartAtRest
    /\ CallsAtRest
    /\ FormatAtRest
    /\ InsightsAtRest
    /\ WebAtRest
    /\ TokenAtRest
    /\ SocialAtRest
    /\ page_stats \in PriorStatsStores
    /\ page_insights = (IF page_stats = {} THEN {} ELSE PriorInsights)
    /\ metrics_summary = (IF page_stats = {} THEN {} ELSE PriorSummary)
    /\ pg_pc = "idle"
    /\ pg_tx = {}
    /\ pg_raw = [has_data |-> FALSE, data |-> <<>>]
    /\ pg_data = <<>>
    /\ pg_idx = 0
    /\ pg_outcome = "none"
    /\ pg_runs = 0
    /\ fan_growth = [called |-> FALSE, available |-> FALSE, growth |-> 0]

PageTablesNext ==
    \/ SavePageInsightsStart
    \/ SavePageInsightsUpsert
    \/ SavePageStats
    \/ SaveSummary
    \/ PgCommit
    \/ PgFails
    \/ CalculateFanGrowth

SpecPageTables == PageTablesInit /\ [][PageTablesNext]_vars


----------------------------------------------------------------------------
(* Saving page insights for a date the table already holds.                *)

\* where a response gives a value for a column on a day: <<block, entry>>
ReportedAt(raw, column, day) ==
    { <<b, i>> \in (1..Len(raw.data)) \X (1..2) :
        /\ i <= Len(raw.data[b].values)
        /\ raw.data[b].name \in DOMAIN ColumnOf
        /\ ColumnOf[raw.data[b].name] = column
        /\ raw.data[b].values[i].end_time = day }

\* the days a response names
DaysOf(raw) ==
    { raw.data[b].values[1].end_time : b \in {k \in 1..Len(raw.data) : Len(raw.data[k].values) >= 1} }
        \cup { raw.data[b].values[2].end_time : b \in {k \in 1..Len(raw.data) : Len(raw.data[k].values) >= 2} }

\* the value a response gives last for a column on a day, 0 when it gives none
ReportedValue(raw, column, day) ==
    LET at == ReportedAt(raw, column, day)
    IN  IF at = {} THEN 0
        ELSE LET last == CHOOSE p \in at :
                            \A q \in at : q[1] < p[1] \/ (q[1] = p[1] /\ q[2] <= p[2])
             IN  raw.data[last[1]].values[last[2]].value

\* C38: when save_page_insights commits, every date of the response has
\* exactly one row, whose seven metric columns hold the response's value for
\* that date where the response gives one and 0 where it gives none, whether
\* the table held that date or not; the rows of every other date are what
\* they were
C38_PageInsightsOverwritten ==
    [][ (pg_pc = "save_page_insights" /\ pg_outcome' = "saved") =>
            /\ \A d \in DaysOf(pg_raw) :
                  \E r \in page_insights' :
                      /\ r.insight_date = d
                      /\ \A q \in page_insights' : q.insight_date = d => q = r
                      /\ \A c \in MetricColumns : r[c] = ReportedValue(pg_raw, c, d)
            /\ \A r \in page_insights \cup page_insights' :
                  r.insight_date \notin DaysOf(pg_raw) =>
                      (r \in page_insights /\ r \in page_insights')
      ]_vars

\* yesterday's row, stored with 11 in every column, holds the 4 impressions
\* of a later response and 0 in a column the response left out, beside the
\* untouched row of eight days ago
C38_Witness ==
    /\ pg_outcome = "saved"
    /\ \E r \in page_insights :
          /\ r.insight_date = Yesterday
          /\ r.page_impressions = 4
          /\ r.page_views = 0
          /\ r.page_post_engagements = 0
    /\ \E r \in page_insights :
          r.insight_date = Today - SevenDays - 1 /\ r.page_views = 10 + r.insight_date


----------------------------------------------------------------------------
(* The summary recomputation.                                              *)

\* C35: when calculate_and_save_summary_metrics commits, every row of
\* facebook_page_insights dated within the last 7 days has exactly one row
\* of facebook_metrics_summary with its date, whose total_views,
\* total_viewers and total_engagement are the row's page_views,
\* page_impressions_unique and page_post_engagements, and whose
\* engagement_rate is 0 when page_impressions is 0; summary rows of older
\* dates are what they were
C35_SummaryFollowsInsights ==
    [][ (pg_pc = "calculate_and_save_summary_metrics" /\ pg_outcome' = "saved") =>
            /\ \A r \in page_insights :
                  r.insight_date >= Today - 7 =>
                      \E s \in metrics_summary' :
                          /\ s.metric_date = r.insight_date
                          /\ \A q \in metrics_summary' : q.metric_date = s.metric_date => q = s
                          /\ s.total_views = r.page_views
                          /\ s.total_viewers = r.page_impressions_unique
                          /\ s.total_engagement = r.page_post_engagements
                          /\ r.page_impressions = 0 => s.engagement_rate = 0
            /\ \A s \in metrics_summary \cup metrics_summary' :
                  s.metric_date < Today - 7 =>
                      (s \in metrics_summary /\ s \in metrics_summary')
      ]_vars

\* after a recomputation the summary holds yesterday's row with a rate of 0
\* for a day without impressions, the row of seven days ago, and the row of
\* eight days ago as it was
C35_Witness ==
    /\ pg_outcome = "saved"
    /\ \E r \in page_insights : r.insight_date = Yesterday /\ r.page_impressions = 0
    /\ \E s \in metrics_summary :
          /\ s.metric_date = Yesterday
          /\ s.total_views = 0
          /\ s.engagement_rate = 0
    /\ \E s \in metrics_summary : s.metric_date = Today - 7 /\ s.total_views = 10 + s.metric_date
    /\ \E s \in metrics_summary : s.metric_date = Today - 8 /\ s.total_views = 3


----------------------------------------------------------------------------
(* Fan growth.                                                             *)

\* the rows of facebook_page_stats dated before the latest one
BeforeLatest(stats) ==
    {r \in stats : \E o \in stats : o.stat_date > r.stat_date}

\* the latest of some rows
LatestOf(rows) == CHOOSE r \in rows : \A o \in rows : o.stat_date <= r.stat_date

\* C34: calculate_fan_growth reports the fan count of the latest row of
\* facebook_page_stats minus that of the row immediately preceding it by
\* date, whatever the preceding count and however old the preceding row,
\* and reports the growth as unavailable only when no row precedes
C34_FanGrowthIsDeltaOfLastTwoRows ==
    [][ CalculateFanGrowth =>
            IF BeforeLatest(page_stats) = {}
            THEN ~fan_growth'.available
            ELSE /\ fan_growth'.available
                 /\ fan_growth'.growth =
                        LatestOf(page_stats).fan_count
                            - LatestOf(BeforeLatest(page_stats)).fan_count
      ]_vars

\* the growth was asked for and reported unavailable although the table
\* holds today's row and an earlier one
C34_Witness ==
    /\ fan_growth.called
    /\ ~fan_growth.available
    /\ \E r \in page_stats : r.stat_date = Today
    /\ BeforeLatest(page_stats) # {}


----------------------------------------------------------------------------
(* The five upsert writers together. fetch_facebook_insights and           *)
(* save_post_insights write facebook_page_insights_daily and               *)
(* facebook_post_insights; save_page_insights, save_page_stats and         *)
(* calculate_and_save_summary_metrics write the three page tables. The two *)
(* families share no table, so that their steps commute: a behaviour       *)
(* follows the writers of one family.                                      *)

\* no writer of the page tables has run
PageWritersUnused == pg_pc = "idle" /\ pg_runs = 0 /\ ~fan_growth.called

\* neither fetch_facebook_insights nor save_post_insights has run
SocialWritersUnused ==
    /\ soc_pc = "idle"
    /\ post_pc = "idle"
    /\ soc_outcome = "none"
    /\ post_outcome = "none"

\* a step of fetch_facebook_insights or of save_post_insights
SocialWriterStep == PageWritersUnused /\ SocialNext

\* a step of one of the three writers of the page tables
PageWriterStep == SocialWritersUnused /\ PageTablesNext

WritersInit ==
    /\ provider \in DashboardProviders
    /\ db = EmptyTables
    /\ realtime_active_users = EmptyBag
    /\ provider_totals \in {t \in DashboardTotals : t.active_5m # <<>>}
    /\ CycleAtRest
    /\ RegisterAtRest
    /\ ReaderAtRest
    /\ ServiceAtRest
    /\ PageCycleAtRest
    /\ PostFetchAtRest
    /\ StartAtRest
    /\ CallsAtRest
    /\ FormatAtRest
    /\ InsightsAtRest
    /\ WebAtRest
    /\ TokenAtRest
    /\ SocialLocalsAtRest
    /\ daily = PriorDaily
    /\ posts = PriorPosts
    /\ last_upsert = (<<"page_views_total", 0>> :> 7)
    /\ page_stats = {[stat_date |-> Yesterday, fan_count |-> 100, followers_count |-> 1]}
    /\ page_insights = PriorInsights
    /\ metrics_summary = PriorSummary
    /\ pg_pc = "idle"
    /\ pg_tx = {}
    /\ pg_raw = [has_data |-> FALSE, data |-> <<>>]
    /\ pg_data = <<>>
    /\ pg_idx = 0
    /\ pg_outcome = "none"
    /\ pg_runs = 0
    /\ fan_growth = [called |-> FALSE, available |-> FALSE, growth |-> 0]

WritersNext ==
    \/ SocialWriterStep
    \/ PageWriterStep

SpecWriters == WritersInit /\ [][WritersNext]_vars

\* C31: in each of the five upsert writers, a run that a failing statement
\* ends leaves the writer's table with the rows it had, whatever the run
\* had written before, and reports the failure to its caller; and a table
\* changes only in the step that commits a whole batch
C31_FailedBatchCommitsNothing ==
    [][ /\ (soc_pc = "upsert" /\ soc_pc' = "idle" /\ soc_outcome' # "success") =>
              (daily' = daily /\ soc_outcome' = "error")
        /\ (post_pc = "upsert" /\ post_pc' = "idle" /\ post_outcome' # "saved") =>
              (posts' = posts /\ post_outcome' = "error")
        /\ (pg_pc # "idle" /\ pg_pc' = "idle" /\ pg_outcome' # "saved") =>
              /\ page_insights' = page_insights
              /\ page_stats' = page_stats
              /\ metrics_summary' = metrics_summary
              /\ pg_outcome' = "error"
        /\ daily' # daily => (soc_outcome' = "success" /\ blk > Len(insights_data))
        /\ posts' # posts => (post_outcome' = "saved" /\ post_idx > Len(posts_data))
        /\ page_insights' # page_insights =>
              (pg_pc = "save_page_insights" /\ pg_outcome' = "saved" /\ pg_idx > Len(pg_data))
        /\ page_stats' # page_stats => (pg_pc = "save_page_stats" /\ pg_outcome' = "saved")
        /\ metrics_summary' # metrics_summary =>
              (pg_pc = "calculate_and_save_summary_metrics" /\ pg_outcome' = "saved")
      ]_vars


\* a run of fetch_facebook_insights and a run of save_post_insights have
\* both ended in a database error, and both tables hold the rows they had
C31_Witness ==
    /\ soc_outcome = "error"
    /\ soc_events # <<>>
    /\ soc_events[Len(soc_events)] = "db_error"
    /\ post_outcome = "error"
    /\ daily = PriorDaily
    /\ posts = PriorPosts


----------------------------------------------------------------------------
(* get_posts_with_insights_last_7_days of facebook_api.py: the post list,  *)
(* then for each post its insights and its engagement fields, followed by  *)
(* format_posts_for_database and save_post_insights as the cycle of        *)
(* save_facebook_data.py calls them.                                       *)

\* most posts the provider lists
MaxListedPosts == 2

\* the post lists of the provider: each post once
ListedPosts ==
    {l \in SeqsUpTo({"p0", "p1"}, MaxListedPosts) :
        \A i, j \in DOMAIN l : l[i] = l[j] => i = j}

\* what the request of a post's insights does: it raises, or answers
InsightsReplies == [raised : {TRUE}, data : {<<>>}] \cup [raised : {FALSE}, data : InsightLists]

\* what the request of a post's engagement fields does
EngagementReplies ==
    {[raised |-> TRUE, shares |-> 0, comments |-> 0],
     [raised |-> FALSE, shares |-> 3, comments |-> 4]}

\* get_post_insights: `except Exception` returns {'data': []}; the caller
\* takes insights.get('data', [])
get_post_insights(reply) == IF reply.raised THEN <<>> ELSE reply.data

\* post_info of one iteration of `for post in posts`
PostInfo(post_id, reply, engagement) ==
    [ id |-> post_id, has_message |-> FALSE, message |-> <<>>,
      insights |-> get_post_insights(reply),
      shares |-> IF engagement.raised THEN 0 ELSE engagement.shares,
      comments |-> IF engagement.raised THEN 0 ELSE engagement.comments ]

\* what a step of get_posts_with_insights_last_7_days leaves alone
pf_rest == <<rtvars, realtime_active_users, regvars, rdvars, rd_candidates, socvars, tkvars,
             schedvars, cycvars, webvars, insvars, callvars, startvars, pgvars>>

\* posts_data = self._make_request(f"{page_id}/posts"): a failed request
\* raises and ends the cycle
FetchPostList ==
    /\ pf_pc \in {"idle", "done"}
    /\ post_pc = "idle"
    /\ \E ok \in BOOLEAN, listed \in ListedPosts :
        /\ ~ok => listed = <<>>
        /\ pf_posts' = listed
        /\ pf_pc' = IF ok THEN "fetching" ELSE "idle"
    /\ raw_posts' = <<>>
    /\ pf_failed' = {}
    /\ UNCHANGED postvars
    /\ UNCHANGED pf_rest

\* variant: the failure of the insights request is not caught and ends the
\* cycle
FetchPostDetailsRaising ==
    /\ pf_pc = "fetching"
    /\ Len(raw_posts) < Len(pf_posts)
    /\ \E reply \in InsightsReplies, engagement \in EngagementReplies :
        IF reply.raised
        THEN /\ pf_pc' = "idle"
             /\ pf_failed' = pf_failed \cup {Len(raw_posts) + 1}
             /\ UNCHANGED raw_posts
        ELSE /\ raw_posts' = Append(raw_posts, PostInfo(pf_posts[Len(raw_posts) + 1], reply, engagement))
             /\ UNCHANGED <<pf_pc, pf_failed>>
    /\ UNCHANGED <<pf_posts, postvars>>
    /\ UNCHANGED pf_rest

\* one iteration of `for post in posts`: get_post_insights, the request of
\* the engagement fields inside its own try, posts_with_insights.append
FetchPostDetails ==
    /\ pf_pc = "fetching"
    /\ Len(raw_posts) < Len(pf_posts)
    /\ \E reply \in InsightsReplies, engagement \in EngagementReplies :
        /\ raw_posts' = Append(raw_posts, PostInfo(pf_posts[Len(raw_posts) + 1], reply, engagement))
        /\ pf_failed' = IF reply.raised THEN pf_failed \cup {Len(raw_posts) + 1} ELSE pf_failed
    /\ UNCHANGED <<pf_pc, pf_posts, postvars>>
    /\ UNCHANGED pf_rest

\* return posts_with_insights; posts_formatted =
\* format_posts_for_database(posts_raw); save_post_insights(posts_formatted)
\* up to its first statement
SaveFetchedPosts ==
    /\ pf_pc = "fetching"
    /\ Len(raw_posts) = Len(pf_posts)
    /\ pf_pc' = "done"
    /\ IF format_posts_for_database(raw_posts) = <<>>
       THEN /\ post_outcome' = "nothing_to_save"
            /\ UNCHANGED <<post_pc, posts_tx, posts_data, post_idx>>
       ELSE /\ post_outcome' = "running"
            /\ posts_data' = format_posts_for_database(raw_posts)
            /\ post_pc' = "upsert"
            /\ posts_tx' = posts
            /\ post_idx' = 1
    /\ UNCHANGED <<posts, raw_posts, pf_posts, pf_failed>>
    /\ UNCHANGED pf_rest

\* the rows of facebook_post_insights an earlier cycle left
PriorFetchedPosts == SetToBag({Post("p0", "old", 0), Post("p1", "old", 1)})

PostFetchInit ==
    /\ provider \in DashboardProviders
    /\ db = EmptyTables
    /\ realtime_active_users = EmptyBag
    /\ provider_totals \in {t \in DashboardTotals : t.active_5m # <<>>}
    /\ CycleAtRest
    /\ RegisterAtRest
    /\ ReaderAtRest
    /\ ServiceAtRest
    /\ PageCycleAtRest
    /\ PostFetchAtRest
    /\ PageTablesAtRest
    /\ StartAtRest
    /\ CallsAtRest
    /\ FormatAtRest
    /\ InsightsAtRest
    /\ WebAtRest
    /\ TokenAtRest
    /\ SocialLocalsAtRest
    /\ daily = EmptyBag
    /\ last_upsert = <<>>
    /\ posts = PriorFetchedPosts

PostFetchNext ==
    \/ FetchPostList
    \/ FetchPostDetails
    \/ SaveFetchedPosts
    \/ PostUpsert
    \/ PostCommit
    \/ PostFails

SpecPostFetch == PostFetchInit /\ [][PostFetchNext]_vars

\* the fields that come from a post's insights
InsightFields ==
    { "post_impressions", "post_impressions_unique", "post_engaged_users", "post_reactions",
      "post_clicks" }

\* C37: a failed insights request of one post does not end the cycle: the
\* loop goes on with the post added to its result, every listed post has
\* been fetched when the loop ends, and when the posts are committed the
\* one row of a post whose request failed holds 0 for impressions, unique
\* impressions, engaged users, reactions and clicks, whatever it held
C37_FailedPostFetchStoresZeros ==
    [][ /\ (pf_pc = "fetching" /\ pf_failed' # pf_failed) =>
              /\ pf_pc' = "fetching"
              /\ Len(raw_posts') = Len(raw_posts) + 1
              /\ raw_posts'[Len(raw_posts')].id = pf_posts[Len(raw_posts')]
        /\ (pf_pc = "fetching" /\ pf_pc' = "done") =>
              /\ Len(raw_posts) = Len(pf_posts)
              /\ \A i \in DOMAIN pf_posts : raw_posts[i].id = pf_posts[i]
        /\ (pf_pc = "done" /\ post_pc = "upsert" /\ post_outcome' = "saved") =>
              \A i \in pf_failed :
                  \E r \in BagToSet(posts') :
                      /\ r.post_id = pf_posts[i]
                      /\ \A q \in BagToSet(posts') : q.post_id = r.post_id => q = r
                      /\ CopiesIn(r, posts') = 1
                      /\ \A f \in InsightFields : r[f] = 0
      ]_vars

\* the insights request of the first of two listed posts failed, the second
\* one was fetched, and after the commit the first post's row holds zeros
\* in place of its earlier values while the second holds its 11 impressions
C37_Witness ==
    /\ pf_pc = "done"
    /\ post_outcome = "saved"
    /\ pf_posts = <<"p1", "p0">>
    /\ pf_failed = {1}
    /\ \E r \in BagToSet(posts) :
          r.post_id = "p1" /\ r.post_impressions = 0 /\ r.post_reactions = 0 /\ r.post_clicks = 0
    /\ \E r \in BagToSet(posts) :
          r.post_id = "p0" /\ r.post_impressions = 11 /\ r.post_reactions = 3


----------------------------------------------------------------------------
(* The scheduled realtime write beside GET /api/refresh, while the         *)
(* provider's reports change.                                              *)

\* what the provider reports at one moment and at another
ChangingProviders ==
    DashboardProviders \cup
    { [ users_5min  |-> <<[dim |-> "Da Nang", value |-> <<3>>]>>,
        users_30min |-> <<[dim |-> "Da Nang", value |-> <<3>>]>>,
        by_device   |-> <<[dim |-> "desktop", value |-> <<3>>]>>,
        by_page     |-> <<[dim |-> "News", value |-> <<3>>]>> ] }

\* the provider's reports change between two calls
ProviderChanges ==
    /\ provider' \in ChangingProviders \ {provider}
    /\ UNCHANGED <<rd_candidates, db, tx, tx_open, pc, ga4_data, todo, idx, outcome, pre,
                   pre_register>>
    /\ UNCHANGED rt_rest

ConcurrentInit ==
    /\ provider \in ChangingProviders
    /\ db \in InitStores
    /\ realtime_active_users = EmptyBag
    /\ provider_totals \in {t \in DashboardTotals : t.active_5m # <<>>}
    /\ CycleAtRest
    /\ RegisterAtRest
    /\ ReaderAtRest
    /\ ServiceAtRest
    /\ PageCycleAtRest
    /\ PostFetchAtRest
    /\ PageTablesAtRest
    /\ StartAtRest
    /\ CallsAtRest
    /\ FormatAtRest
    /\ InsightsAtRest
    /\ WebAtRest
    /\ SocialAtRest
    /\ TokenAtRest

ConcurrentNext ==
    \/ ProviderChanges
    \/ StartCycle
    \/ Fetch5min
    \/ Fetch30min
    \/ FetchDevice
    \/ FetchPage
    \/ FetchFails
    \/ ConnectFails
    \/ Truncate
    \/ InsertLocation
    \/ EndLocationLoop
    \/ InsertSource
    \/ EndSourceLoop
    \/ InsertPage
    \/ EndPageLoop
    \/ Commit
    \/ StatementFails
    \/ WebStart
    \/ WebFetch
    \/ WebFetchFails
    \/ WebConnectFails
    \/ WebBegin
    \/ WebTruncate
    \/ WebInsert
    \/ WebCommit
    \/ WebStatementFails

SpecConcurrent == ConcurrentInit /\ [][ConcurrentNext]_vars

\* C36: with the scheduled write and the write of GET /api/refresh in
\* progress together, the three tables change only when one of the two
\* commits, and they then hold exactly the rows of the committing cycle's
\* own reports: whichever commits last, no table holds rows of both. The
\* two never hold uncommitted rows in the tables at once: the second
\* TRUNCATE waits for the first transaction to end
C36_LastCommitterOwnsTables ==
    [][ /\ ~(tx_open' /\ web_pc' \in {"insert", "commit"})
        /\ (pc = "commit" /\ outcome' = "success") => db' = SaveToDatabase(ga4_data)
        /\ (web_pc = "commit" /\ web_outcome' = "success") => db' = SaveToDatabase(web_data)
        /\ db' # db =>
              \/ pc = "commit" /\ outcome' = "success"
              \/ web_pc = "commit" /\ web_outcome' = "success"
      ]_vars

\* the scheduled cycle is about to commit the rows of one set of reports
\* over tables that hold the rows of an earlier write, while the handler of
\* GET /api/refresh waits for the lock with reports that differ in every
\* table
C36_Witness ==
    /\ tx_open
    /\ pc = "commit"
    /\ web_pc = "truncate"
    /\ db # EmptyTables
    /\ \A t \in DOMAIN EmptyTables :
          /\ SaveToDatabase(web_data)[t] # tx[t]
          /\ db[t] # tx[t]
          /\ tx[t] # EmptyBag

====
